---- MODULE Spec2Model ----
(***************************************************************************)
(* Innisfree tunnel lifecycle: the `up` subcommand of main.rs driving      *)
(* TunnelManager (manager.rs) and the DigitalOcean Droplet binding         *)
(* (server/digitalocean/*.rs).                                             *)
(*                                                                         *)
(* The process is a single main task (pc) plus, optionally, one spawned    *)
(* proxy task.  Every call that leaves the process (provider HTTP request, *)
(* subprocess, filesystem operation) has its outcome chosen by the         *)
(* environment.                                                            *)
(*                                                                         *)
(* TunnelManager::new takes an optional static IP and assigns it itself;   *)
(* main.rs assigns --floating-ip after up().  Both paths are modelled,     *)
(* each switched by its own input.                                         *)
(***************************************************************************)
EXTENDS Integers, Sequences, FiniteSets, TLC

VARIABLES
    pc,            \* position of the main task
    exitCode,      \* process exit status, NotExited while running
    tokenSet,      \* DIGITALOCEAN_API_TOKEN is non-empty          (input)
    floating_ip,   \* --floating-ip differs from "None"            (input)
    static_ip,     \* TunnelManager::new got Some(static_ip)       (input)
    destLocal,     \* --dest-ip is 127.0.0.1                       (input)
    destParses,    \* --dest-ip parses as an IpAddr                 (input)
    port_spec,     \* value of --ports                             (input)
    services,      \* Vec<ServicePort> handed to the manager
    keyExists,     \* provider: the registered SSH key exists
    dropletExists, \* provider: the Droplet exists
    dropletStatus, \* provider: status of the Droplet
    fipBound,      \* provider: reserved IP bound to the Droplet
    server,        \* the Droplet handle held by the process
    polls,         \* wait_for_boot iterations so far
    sshRetries,    \* wait_for_ssh failed connects, modulo MaxSshRetries + 1
    dirExists,     \* ~/.config/innisfree/<name>/ exists
    files,         \* files inside the config directory
    wgUp,          \* local WireGuard interface exists
    remoteWgUp,    \* remote WireGuard interface exists
    upLog,         \* steps up() has run, with the status each ended with
    upResult,      \* what up() returned
    cleanCount,    \* number of invocations of clean()
    cleanLog,      \* teardown actions clean() has attempted, with results
    cleanCaller,   \* who invoked the clean() in progress
    signalled,     \* ctrl_c() resolved with Ok(())
    fipFailed,     \* main's assign_floating_ip returned Err
    requests,      \* provider API requests issued, in order
    proxySpawned,  \* run_proxy task was spawned
    listeners,     \* indexes of services whose listener is bound
    destroyLog,    \* calls of Droplet::destroy: pre-state, result, requests
    \* --- config.rs, the parser on its own
    parseInput,    \* the &str given to ServicePort::from_str_multi
    parseResult,   \* what from_str_multi returned, NotCalled before the call
    \* --- net.rs, the subnet allocator on its own
    bound,         \* addresses bound to the interfaces of the host
    subnetResult,  \* what generate_unused_subnet returned
    \* --- two `up` processes on one host
    tunnels,       \* per process: --name, position, allocated /30, Droplet id
    hostIfaces,    \* WireGuard interfaces of the host, with their address
    hostDirs,      \* directories below ~/.config/innisfree, with their files
    droplets,      \* ids of the Droplets that exist at the provider
    \* --- manager.rs run_proxy and proxy.rs
    proxyServices, \* Vec<ServicePort> given to run_proxy
    runProxy,      \* state of the run_proxy future
    handlers,      \* state of the proxy_handler future of each service
    conns,         \* the transfer sub-tasks spawned so far
    refused,       \* client connections no listener accepted
    \* --- config.rs clean_name on its own
    nameInput,     \* the &str given to clean_name first
    nameResults,   \* what clean_name returned, each call fed the last result
    \* --- the config root, as `up`, `ip` and `ssh` processes use it
    tunnelAddr,    \* per tunnel name: public IPv4 of the server of its manager
    store,         \* per tunnel name: its directory below the config root
    lastCmd,       \* the `ip` or `ssh` subcommand run last, with its outcome
    \* --- wg.rs WireguardManager::new on its own
    wgManager,     \* the WireguardManager that new returned
    wgServerCopy   \* the clone of it handed to Droplet::new

\* the `up` subcommand
mainVars == <<pc, exitCode, tokenSet, floating_ip, static_ip, destLocal,
              destParses,
              port_spec, services, keyExists, dropletExists, dropletStatus,
              fipBound, server, polls, sshRetries, dirExists, files, wgUp,
              remoteWgUp, upLog, upResult, cleanCount, cleanLog, cleanCaller,
              signalled, fipFailed, requests, proxySpawned, listeners,
              destroyLog>>
parserVars == <<parseInput, parseResult>>
subnetVars == <<bound, subnetResult>>
hostVars == <<tunnels, hostIfaces, hostDirs, droplets>>
engineVars == <<proxyServices, runProxy, handlers, conns, refused>>
nameVars == <<nameInput, nameResults>>
storeVars == <<tunnelAddr, store, lastCmd>>
wgVars == <<wgManager, wgServerCopy>>
auxVars == <<nameVars, storeVars, wgVars>>
coreVars == <<parserVars, subnetVars, hostVars, engineVars>>
\* what the `up` subcommand of one process leaves alone
libVars == <<coreVars, auxVars>>

vars == <<mainVars, libVars>>

\* ------------------------------------------------------------------ bounds

\* wait_for_boot polls at most this many times with status "new"
MaxPolls == 2
\* refused connections of wait_for_ssh are counted up to this number
MaxSshRetries == 1
\* Droplet::destroy is applied at most this many times to one handle
MaxDestroyCalls == 3

\* ------------------------------------------------------------- constants

NotExited == "running"
\* a process whose main returns Err exits with this status
ExitMainErr == "1"
ExitUpFailed == "2"
ExitHandlerFailed == "10"
ExitClean == "0"
\* a process whose main thread panics exits with this status
ExitPanic == "101"
\* default disposition of SIGINT while no handler is installed
KilledBySigint == "SIGINT"

NoServer == [status |-> "none", ssh_pubkey |-> FALSE]

\* ------------------------------------------------------------- config.rs

\* A &str is the sequence of its characters.
Digits == <<"0", "1", "2", "3", "4", "5", "6", "7", "8", "9">>

IsDigit(c) == \E d \in 1..Len(Digits) : Digits[d] = c

DigitValue(c) == (CHOOSE d \in 1..Len(Digits) : Digits[d] = c) - 1

RECURSIVE DecimalValue(_)
DecimalValue(s) ==
    IF s = <<>> THEN 0
    ELSE 10 * DecimalValue(SubSeq(s, 1, Len(s) - 1)) + DigitValue(s[Len(s)])

\* str::parse::<i32>: an optional sign, then one or more decimal digits.
\* The strings of this model have fewer than ten digits, so the overflow
\* error of parse cannot arise.
ParseI32(s) ==
    LET signed == s # <<>> /\ s[1] \in {"+", "-"}
        digits == IF signed THEN Tail(s) ELSE s
    IN  IF digits = <<>> \/ \E i \in 1..Len(digits) : ~IsDigit(digits[i])
          THEN [ok |-> FALSE, value |-> 0]
          ELSE [ok |-> TRUE,
                value |-> IF signed /\ s[1] = "-" THEN 0 - DecimalValue(digits)
                          ELSE DecimalValue(digits)]

\* str::split(sep): the pieces between the separators, empty ones included
RECURSIVE Split(_, _)
Split(s, sep) ==
    IF \A i \in 1..Len(s) : s[i] # sep THEN <<s>>
    ELSE LET k == CHOOSE i \in 1..Len(s) :
                      s[i] = sep /\ \A j \in 1..(i - 1) : s[j] # sep
         IN  <<SubSeq(s, 1, k - 1)>> \o Split(SubSeq(s, k + 1, Len(s)), sep)

TCP == <<"T", "C", "P">>

\* impl TryFrom<&str> for ServicePort
try_from(spec) ==
    LET port_and_proto_spec == Split(spec, "/")
        protocol == IF Len(port_and_proto_spec) >= 2
                      THEN port_and_proto_spec[2] ELSE TCP
        port_spec_parts == Split(port_and_proto_spec[1], ":")
        port == ParseI32(port_spec_parts[1])
        local_port == IF Len(port_spec_parts) >= 2
                        THEN ParseI32(port_spec_parts[2]) ELSE port
    IN  IF port.ok /\ local_port.ok
          THEN [ok |-> TRUE,
                value |-> [port |-> port.value,
                           local_port |-> local_port.value,
                           protocol |-> protocol]]
          ELSE [ok |-> FALSE,
                value |-> [port |-> 0, local_port |-> 0, protocol |-> protocol]]

\* Iterator::flat_map over Results: an Ok yields its value, an Err yields
\* nothing
RECURSIVE FlatMapTryFrom(_)
FlatMapTryFrom(elements) ==
    IF elements = <<>> THEN <<>>
    ELSE LET r == try_from(Head(elements))
         IN  (IF r.ok THEN <<r.value>> ELSE <<>>)
                 \o FlatMapTryFrom(Tail(elements))

\* ServicePort::from_str_multi: Ok(split(',').flat_map(try_from).collect())
from_str_multi(spec) ==
    [ok |-> TRUE, value |-> FlatMapTryFrom(Split(spec, ","))]

\* String::replace(pat, ""): every non-overlapping match, left to right
RECURSIVE Remove(_, _)
Remove(s, pat) ==
    IF Len(s) < Len(pat) THEN s
    ELSE IF SubSeq(s, 1, Len(pat)) = pat
      THEN Remove(SubSeq(s, Len(pat) + 1, Len(s)), pat)
    ELSE <<Head(s)>> \o Remove(Tail(s), pat)

Innisfree == <<"i", "n", "n", "i", "s", "f", "r", "e", "e">>

\* config.rs clean_name
clean_name(name) ==
    IF name = Innisfree THEN name
    ELSE (Innisfree \o <<"-">>)
            \o Remove(Remove(name, <<"-">> \o Innisfree), Innisfree \o <<"-">>)

\* values of --ports the `up` subcommand may be started with:
\* "80:8000", "80:8000,443" and "bad"
PortSpecs ==
    { <<"8", "0", ":", "8", "0", "0", "0">>,
      <<"8", "0", ":", "8", "0", "0", "0", ",", "4", "4", "3">>,
      <<"b", "a", "d">> }

\* ServicePort lists the manager may be handed; the empty list before
\* --ports is parsed
ServiceLists == {from_str_multi(p).value : p \in PortSpecs} \cup {<<>>}

\* ------------------------------------------------------------ environment

\* outcome of std::process::Command::status(): the io::Error of a failed
\* spawn, or an ExitStatus that is zero or not
CmdOutcomes == {"spawn_err", "zero", "nonzero"}

\* outcome of an HTTP request answered through send() and error_for_status():
\* a DELETE of a resource that does not exist is answered 404
HttpOutcomes(resourceExists) ==
    IF resourceExists THEN {"ok", "http_error", "net_error"}
                      ELSE {"http_error", "net_error"}

\* outcome of writing files below the config directory: make_config_dir may
\* fail, or the directory is made and the write fails
FsOutcomes == {"ok", "mkdir_err", "write_err"}

\* a function that has not been called has no result
NotCalled == [status |-> "not called"]

\* the parser, the allocator, the second process and the proxy engine are
\* not part of one run of the `up` subcommand up to block()
ParserIdle == parseInput = <<>> /\ parseResult = NotCalled
SubnetIdle == bound = {} /\ subnetResult = NotCalled
HostIdle ==
    /\ tunnels = <<>> /\ hostIfaces = {} /\ hostDirs = {}
    /\ droplets = {}
EngineIdle ==
    /\ proxyServices = <<>> /\ runProxy = "not called"
    /\ handlers = <<>> /\ conns = <<>> /\ refused = {}
NameIdle == nameInput = <<>> /\ nameResults = <<>>
StoreIdle == tunnelAddr = <<>> /\ store = <<>> /\ lastCmd = NotCalled
WgIdle == wgManager = NotCalled /\ wgServerCopy = NotCalled
AuxIdle == NameIdle /\ StoreIdle /\ WgIdle
CoreIdle == ParserIdle /\ SubnetIdle /\ HostIdle /\ EngineIdle
LibIdle == CoreIdle /\ AuxIdle

TypeOK ==
    /\ pc \in STRING
    /\ exitCode \in {NotExited, ExitMainErr, ExitUpFailed, ExitHandlerFailed,
                     ExitClean, ExitPanic, KilledBySigint}
    /\ tokenSet \in BOOLEAN /\ floating_ip \in BOOLEAN
    /\ static_ip \in BOOLEAN /\ destLocal \in BOOLEAN
    /\ destParses \in BOOLEAN
    /\ services \in ServiceLists
    /\ keyExists \in BOOLEAN /\ dropletExists \in BOOLEAN
    /\ dropletStatus \in {"none", "new", "active"}
    /\ fipBound \in BOOLEAN
    /\ polls \in Nat /\ sshRetries \in Nat
    /\ dirExists \in BOOLEAN
    /\ wgUp \in BOOLEAN /\ remoteWgUp \in BOOLEAN
    /\ upResult \in {"none", "ok", "err"}
    /\ cleanCount \in Nat
    /\ signalled \in BOOLEAN /\ fipFailed \in BOOLEAN
    /\ proxySpawned \in BOOLEAN

\* -------------------------------------------------------- variable groups

inputVars == <<tokenSet, floating_ip, static_ip, destLocal, destParses,
               port_spec>>
\* the arguments once they are read, and what one `up` process leaves alone
givenVars == <<inputVars, services, libVars>>
providerVars == <<keyExists, dropletExists, dropletStatus, fipBound>>
localVars == <<dirExists, files, wgUp, remoteWgUp>>
upVars == <<upLog, upResult, sshRetries>>
cleanVars == <<cleanCount, cleanLog, cleanCaller, destroyLog>>
proxyVars == <<proxySpawned, listeners>>

Init ==
    /\ pc = "start"
    /\ exitCode = NotExited
    /\ tokenSet \in BOOLEAN
    /\ floating_ip \in BOOLEAN
    /\ static_ip \in BOOLEAN
    /\ destLocal \in BOOLEAN
    /\ destParses \in BOOLEAN
    /\ destLocal => destParses
    /\ port_spec \in PortSpecs
    /\ services = <<>>
    /\ keyExists = FALSE /\ dropletExists = FALSE
    /\ dropletStatus = "none" /\ fipBound = FALSE
    /\ server = NoServer
    /\ polls = 0 /\ sshRetries = 0
    /\ dirExists \in BOOLEAN
    /\ files = {}
    /\ wgUp = FALSE /\ remoteWgUp = FALSE
    /\ upLog = <<>> /\ upResult = "none"
    /\ cleanCount = 0 /\ cleanLog = <<>> /\ cleanCaller = "none"
    /\ signalled = FALSE /\ fipFailed = FALSE
    /\ requests = <<>>
    /\ proxySpawned = FALSE /\ listeners = {}
    /\ destroyLog = <<>>
    /\ LibIdle

\* std::process::exit(code), or main returning: the process is gone, and its
\* sockets with it
Exit(code) ==
    /\ pc' = "exited"
    /\ exitCode' = code
    /\ listeners' = {}

\* ------------------------------------------------- main.rs: token check

\* main without the check of DIGITALOCEAN_API_TOKEN
MainSkipTokenCheck ==
    /\ pc = "start"
    /\ IF ~destParses
         THEN /\ Exit(ExitPanic)
              /\ UNCHANGED services
         ELSE /\ services' = from_str_multi(port_spec).value
              /\ pc' = "new_clean_config_dir"
              /\ UNCHANGED <<exitCode, listeners>>
    /\ UNCHANGED <<inputVars, libVars, providerVars, server, polls, localVars,
                   upVars, cleanVars, signalled, fipFailed, requests,
                   proxySpawned>>

\* ... then the arguments are read: --dest-ip is parsed with unwrap(), which
\* panics on a value that is no IP address; the value of
\* from_str_multi(port_spec) is what TunnelManager::new is handed, nothing
\* looks at whether an element of --ports failed to parse
MainCheckToken ==
    /\ pc = "start"
    /\ IF ~tokenSet
         THEN /\ Exit(ExitMainErr)
              /\ UNCHANGED services
         ELSE IF ~destParses
           THEN /\ Exit(ExitPanic)
                /\ UNCHANGED services
         ELSE /\ services' = from_str_multi(port_spec).value
              /\ pc' = "new_clean_config_dir"
              /\ UNCHANGED <<exitCode, listeners>>
    /\ UNCHANGED <<inputVars, libVars, providerVars, server, polls, localVars,
                   upVars, cleanVars, signalled, fipFailed, requests,
                   proxySpawned>>

\* ------------------------------------------- manager.rs: TunnelManager::new

\* TunnelManager::new with the SSH key registered before the user data is
\* generated
NewOrderKeyFirst ==
    <<"new_clean_config_dir", "new_wireguard", "new_ssh_keypairs",
      "new_register_key", "new_user_data", "new_create_droplet",
      "new_wait_for_boot", "new_static_ip", "new_returned">>

\* the steps of TunnelManager::new, in program order
NewOrder ==
    <<"new_clean_config_dir", "new_wireguard", "new_ssh_keypairs",
      "new_user_data", "new_register_key", "new_create_droplet",
      "new_wait_for_boot", "new_static_ip", "new_returned">>

\* where TunnelManager::new goes after `step`: every step is followed by `?`
NewNext(step, ok) ==
    IF ok
      THEN LET i == CHOOSE j \in 1..Len(NewOrder) : NewOrder[j] = step
           IN  NewOrder[i + 1]
      ELSE "new_failed"

\* config.rs clean_config_dir: make_config_dir, then remove_dir_all
CleanConfigDirResult(mk, rm) ==
    IF mk # "ok" THEN [ok |-> FALSE, dir |-> dirExists, files |-> files]
    ELSE IF rm # "ok" THEN [ok |-> FALSE, dir |-> TRUE, files |-> files]
    ELSE [ok |-> TRUE, dir |-> FALSE, files |-> {}]

NewCleanConfigDir ==
    /\ pc = "new_clean_config_dir"
    /\ \E mk \in {"ok", "mkdir_err"}, rm \in {"ok", "remove_err"} :
         LET r == CleanConfigDirResult(mk, rm) IN
         /\ dirExists' = r.dir
         /\ files' = r.files
         /\ pc' = NewNext("new_clean_config_dir", r.ok)
    /\ UNCHANGED <<exitCode, givenVars, providerVars, server, polls, wgUp,
                   remoteWgUp, upVars, cleanVars, signalled, fipFailed,
                   requests, proxyVars>>

\* WireguardManager::new: generate_unused_subnet()? and two keypairs
NewWireguard ==
    /\ pc = "new_wireguard"
    /\ \E ok \in BOOLEAN : pc' = NewNext("new_wireguard", ok)
    /\ UNCHANGED <<exitCode, givenVars, providerVars, server, polls, localVars,
                   upVars, cleanVars, signalled, fipFailed, requests, proxyVars>>

\* SshKeypair::new("client")?, SshKeypair::new("server")?
NewSshKeypairs ==
    /\ pc = "new_ssh_keypairs"
    /\ \E ok \in BOOLEAN : pc' = NewNext("new_ssh_keypairs", ok)
    /\ UNCHANGED <<exitCode, givenVars, providerVars, server, polls, localVars,
                   upVars, cleanVars, signalled, fipFailed, requests, proxyVars>>

\* generate_user_data: the templates are rendered, then get_all_keys() is
\* asked for the account keys (its failure is only logged), then the YAML
\* is serialized
DropletNewUserData ==
    /\ pc = "new_user_data"
    /\ \E out \in {"render_err", "ok", "serialize_err"} :
         /\ requests' = IF out = "render_err" THEN requests
                        ELSE Append(requests, "GET account/keys")
         /\ pc' = NewNext("new_user_data", out = "ok")
    /\ UNCHANGED <<exitCode, givenVars, providerVars, server, polls, localVars,
                   upVars, cleanVars, signalled, fipFailed, proxyVars>>

\* DigitalOceanSshKey::new: POST account/keys
DropletNewRegisterKey ==
    /\ pc = "new_register_key"
    /\ \E resp \in HttpOutcomes(TRUE) :
         /\ keyExists' = (resp = "ok")
         /\ pc' = NewNext("new_register_key", resp = "ok")
    /\ requests' = Append(requests, "POST account/keys")
    /\ UNCHANGED <<exitCode, givenVars, dropletExists, dropletStatus, fipBound,
                   server, polls, localVars, upVars, cleanVars, signalled,
                   fipFailed, proxyVars>>

\* Droplet::new: POST droplets, then droplet.ssh_pubkey = Some(do_ssh_key)
DropletNewCreate ==
    /\ pc = "new_create_droplet"
    /\ \E resp \in HttpOutcomes(TRUE) :
         /\ dropletExists' = (resp = "ok")
         /\ dropletStatus' = IF resp = "ok" THEN "new" ELSE dropletStatus
         /\ server' = IF resp = "ok"
                        THEN [status |-> "new", ssh_pubkey |-> TRUE]
                        ELSE server
         /\ pc' = NewNext("new_create_droplet", resp = "ok")
    /\ requests' = Append(requests, "POST droplets")
    /\ UNCHANGED <<exitCode, givenVars, keyExists, fipBound, polls, localVars,
                   upVars, cleanVars, signalled, fipFailed, proxyVars>>

\* wait_for_boot returning the handle it was called on
GetDropletStale(droplet, status) == droplet

\* get_droplet returning the Droplet as it is deserialized from the response,
\* which has no ssh_pubkey
GetDropletNoKey(droplet, status) == [status |-> status, ssh_pubkey |-> FALSE]

\* get_droplet: GET droplets/<id>; the result carries the caller's ssh_pubkey
GetDroplet(droplet, status) ==
    [status |-> status, ssh_pubkey |-> droplet.ssh_pubkey]

\* Droplet::wait_for_boot: one iteration of the loop
DropletWaitForBoot ==
    /\ pc = "new_wait_for_boot"
    /\ requests' = Append(requests, "GET droplets/id")
    /\ \E resp \in HttpOutcomes(dropletExists) :
         IF resp # "ok"
           THEN /\ pc' = NewNext("new_wait_for_boot", FALSE)
                /\ UNCHANGED <<server, polls, dropletStatus>>
           ELSE \E st \in {"new", "active"} :
                  /\ st = "new" => (dropletStatus = "new" /\ polls < MaxPolls)
                  /\ dropletStatus' = st
                  /\ polls' = polls + 1
                  /\ IF st = "active"
                       THEN /\ server' = GetDroplet(server, st)
                            /\ pc' = NewNext("new_wait_for_boot", TRUE)
                       ELSE UNCHANGED <<server, pc>>
    /\ UNCHANGED <<exitCode, givenVars, keyExists, dropletExists, fipBound,
                   localVars, upVars, cleanVars, signalled, fipFailed,
                   proxyVars>>

\* FloatingIp::assign: POST floating_ips/<ip>/actions; only a failure of
\* send() is an error, the status of the response is not looked at
FloatingIpAssign(resp) == resp # "net_error"

\* TunnelManager::new: if let Some(ip) = static_ip { assign_floating_ip? }
NewStaticIp ==
    /\ pc = "new_static_ip"
    /\ IF static_ip
         THEN \E resp \in HttpOutcomes(TRUE) :
                /\ requests' = Append(requests, "POST floating_ips/ip/actions")
                /\ fipBound' = (resp = "ok")
                /\ pc' = NewNext("new_static_ip", FloatingIpAssign(resp))
         ELSE /\ pc' = NewNext("new_static_ip", TRUE)
              /\ UNCHANGED <<requests, fipBound>>
    /\ UNCHANGED <<exitCode, givenVars, keyExists, dropletExists,
                   dropletStatus, server, polls, localVars, upVars, cleanVars,
                   signalled, fipFailed, proxyVars>>

\* main.rs: Err(e) of TunnelManager::new => exit(2); the server handle, if
\* one was made, is dropped with the failed constructor
MainNewErr ==
    /\ pc = "new_failed"
    /\ Exit(ExitUpFailed)
    /\ server' = NoServer
    /\ UNCHANGED <<givenVars, providerVars, polls, localVars, upVars,
                   cleanVars, signalled, fipFailed, requests, proxySpawned>>

\* main.rs: Ok(m) of TunnelManager::new => mgr.up()
MainNewOk ==
    /\ pc = "new_returned"
    /\ pc' = "up_wait_for_ssh"
    /\ UNCHANGED <<exitCode, givenVars, providerVars, server, polls, localVars,
                   upVars, cleanVars, signalled, fipFailed, requests, proxyVars>>

\* -------------------------------------------- manager.rs: TunnelManager::up

\* the steps of up(), in program order
UpOrder ==
    <<"up_wait_for_ssh", "up_wait_for_cloudinit", "up_write_locally",
      "up_bring_up_remote_wg", "up_bring_up_local_wg", "up_test_connection",
      "up_returned">>

\* up() with the local interface raised before the remote one
UpNextSwapped(step) ==
    LET order == <<"up_wait_for_ssh", "up_wait_for_cloudinit",
                   "up_write_locally", "up_bring_up_local_wg",
                   "up_bring_up_remote_wg", "up_test_connection",
                   "up_returned">>
        i == CHOOSE j \in 1..Len(order) : order[j] = step
    IN  order[i + 1]

\* where up() goes after `step` has returned Ok
UpNext(step) ==
    LET i == CHOOSE j \in 1..Len(UpOrder) : UpOrder[j] = step
    IN  UpOrder[i + 1]

LogEntry(step, status) == [step |-> step, status |-> status]

\* a step of up() returned: Ok goes on to the next step, Err is returned by
\* up() through `?`
UpStepReturns(step, ok) ==
    /\ pc' = IF ok THEN UpNext(step) ELSE "up_returned"
    /\ upResult' = IF ~ok THEN "err"
                   ELSE IF UpNext(step) = "up_returned" THEN "ok"
                   ELSE upResult

\* writing `names` below the config directory (make_config_dir, then write)
WriteFilesResult(out, names) ==
    [ok |-> out = "ok",
     dir |-> IF out = "mkdir_err" THEN dirExists ELSE TRUE,
     files |-> IF out = "ok" THEN files \cup names ELSE files]

\* whether a function that ends in Command::status()? returns Ok: only the
\* io::Error of a failed spawn is an error, the ExitStatus is not looked at
StatusResultOk(cmd) == cmd # "spawn_err"

\* wait_for_ssh with a deadline: Err once MaxSshRetries connections in a
\* row were refused
UpWaitForSshDeadline ==
    /\ pc = "up_wait_for_ssh"
    /\ \E connected \in BOOLEAN :
         IF connected
           THEN /\ upLog' = Append(upLog, LogEntry("wait_for_ssh", "ok"))
                /\ UpStepReturns("up_wait_for_ssh", TRUE)
                /\ UNCHANGED sshRetries
           ELSE IF sshRetries < MaxSshRetries
             THEN /\ sshRetries' = sshRetries + 1
                  /\ UNCHANGED <<pc, upLog, upResult>>
           ELSE /\ upLog' = Append(upLog, LogEntry("wait_for_ssh", "err"))
                /\ UpStepReturns("up_wait_for_ssh", FALSE)
                /\ sshRetries' = sshRetries + 1
    /\ UNCHANGED <<exitCode, givenVars, providerVars, server, polls, localVars,
                   cleanVars, signalled, fipFailed, requests, proxyVars>>

\* wait_for_ssh: one TcpStream::connect of the loop; a refused connection
\* sleeps and retries. The loop keeps no count of its iterations: the
\* model counts them modulo MaxSshRetries + 1
UpWaitForSsh ==
    /\ pc = "up_wait_for_ssh"
    /\ \E connected \in BOOLEAN :
         IF connected
           THEN /\ upLog' = Append(upLog, LogEntry("wait_for_ssh", "ok"))
                /\ UpStepReturns("up_wait_for_ssh", TRUE)
                /\ UNCHANGED sshRetries
           ELSE /\ sshRetries' = (sshRetries + 1) % (MaxSshRetries + 1)
                /\ UNCHANGED <<pc, upLog, upResult>>
    /\ UNCHANGED <<exitCode, givenVars, providerVars, server, polls, localVars,
                   cleanVars, signalled, fipFailed, requests, proxyVars>>

\* run_ssh_cmd: write the client keypair, write known_hosts, run ssh
RunSshCmd(step, name, kp, kh, cmd) ==
    LET w1 == WriteFilesResult(kp, {"client_id_ed25519", "client_id_ed25519.pub"})
        dir1 == w1.dir
        files1 == w1.files
        w2 == [ok |-> kh = "ok",
               dir |-> IF kh = "mkdir_err" THEN dir1 ELSE TRUE,
               files |-> IF kh = "ok" THEN files1 \cup {"known_hosts"}
                         ELSE files1]
    IN
    IF ~w1.ok
      THEN /\ dirExists' = w1.dir /\ files' = w1.files
           /\ upLog' = Append(upLog, LogEntry(name, "err"))
           /\ UpStepReturns(step, FALSE)
           /\ UNCHANGED remoteWgUp
    ELSE IF ~w2.ok
      THEN /\ dirExists' = w2.dir /\ files' = w2.files
           /\ upLog' = Append(upLog, LogEntry(name, "err"))
           /\ UpStepReturns(step, FALSE)
           /\ UNCHANGED remoteWgUp
    ELSE /\ dirExists' = w2.dir /\ files' = w2.files
         /\ upLog' = Append(upLog, LogEntry(name,
                           IF cmd = "spawn_err" THEN "err" ELSE cmd))
         /\ UpStepReturns(step, StatusResultOk(cmd))
         /\ remoteWgUp' = IF name = "bring_up_remote_wg" /\ cmd = "zero"
                            THEN TRUE ELSE remoteWgUp

\* wait_for_cloudinit: ssh ... cloud-init status --long --wait
UpWaitForCloudinit ==
    /\ pc = "up_wait_for_cloudinit"
    /\ \E kp \in FsOutcomes, kh \in FsOutcomes, cmd \in CmdOutcomes :
         RunSshCmd("up_wait_for_cloudinit", "wait_for_cloudinit", kp, kh, cmd)
    /\ UNCHANGED <<exitCode, givenVars, providerVars, server, polls, wgUp,
                   sshRetries, cleanVars, signalled, fipFailed, requests,
                   proxyVars>>

\* WireguardDevice::write_locally: make_config_dir()?, File::create()?, then
\* config_with_services()? renders the INI and write_all()? writes it; a
\* render that fails leaves the file it was to fill, empty
WriteLocallyResult(out) ==
    IF out = "render_err"
      THEN [ok |-> FALSE, dir |-> TRUE, files |-> files \cup {"wg.conf"}]
      ELSE WriteFilesResult(out, {"wg.conf"})

\* wg.write_locally(&self.name, &self.services): <name>.conf, filtered form
UpWriteLocally ==
    /\ pc = "up_write_locally"
    /\ \E out \in FsOutcomes \cup {"render_err"} :
         LET w == WriteLocallyResult(out) IN
         /\ dirExists' = w.dir /\ files' = w.files
         /\ upLog' = Append(upLog,
                LogEntry("write_locally", IF w.ok THEN "ok" ELSE "err"))
         /\ UpStepReturns("up_write_locally", w.ok)
    /\ UNCHANGED <<exitCode, givenVars, providerVars, server, polls, wgUp,
                   remoteWgUp, sshRetries, cleanVars, signalled, fipFailed,
                   requests, proxyVars>>

\* bring_up_remote_wg: ssh ... wg-quick up /tmp/innisfree.conf
UpBringUpRemoteWg ==
    /\ pc = "up_bring_up_remote_wg"
    /\ \E kp \in FsOutcomes, kh \in FsOutcomes, cmd \in CmdOutcomes :
         RunSshCmd("up_bring_up_remote_wg", "bring_up_remote_wg", kp, kh, cmd)
    /\ UNCHANGED <<exitCode, givenVars, providerVars, server, polls, wgUp,
                   sshRetries, cleanVars, signalled, fipFailed, requests,
                   proxyVars>>

\* bring_down_local_wg: make_config_dir()?, then wg-quick down <conf>
BringDownLocalWg(mk, cmd) ==
    [status |-> IF mk # "ok" THEN "err"
                ELSE IF cmd = "spawn_err" THEN "err" ELSE cmd,
     dir |-> IF mk = "ok" THEN TRUE ELSE dirExists,
     wg |-> IF mk = "ok" /\ cmd = "zero" THEN FALSE ELSE wgUp]

\* bring_up_local_wg: let _down = bring_down_local_wg(); config_dir()?;
\* wg-quick up <conf>
UpBringUpLocalWg ==
    /\ pc = "up_bring_up_local_wg"
    /\ \E mkd \in {"ok", "mkdir_err"}, down \in CmdOutcomes,
          mku \in {"ok", "mkdir_err"}, up \in CmdOutcomes :
         LET d == BringDownLocalWg(mkd, down)
             log1 == Append(upLog, LogEntry("bring_down_local_wg", d.status))
         IN
         IF mku # "ok"
           THEN /\ dirExists' = d.dir /\ wgUp' = d.wg
                /\ upLog' = Append(log1, LogEntry("wg_quick_up_local", "err"))
                /\ UpStepReturns("up_bring_up_local_wg", FALSE)
           ELSE /\ dirExists' = TRUE
                /\ wgUp' = IF up = "zero" THEN TRUE ELSE d.wg
                /\ upLog' = Append(log1, LogEntry("wg_quick_up_local",
                                  IF up = "spawn_err" THEN "err" ELSE up))
                /\ UpStepReturns("up_bring_up_local_wg", StatusResultOk(up))
    /\ UNCHANGED <<exitCode, givenVars, providerVars, server, polls, files,
                   remoteWgUp, sshRetries, cleanVars, signalled, fipFailed,
                   requests, proxyVars>>

\* test_connection: ping -c1 -w5 <wg_remote_ip>
UpTestConnection ==
    /\ pc = "up_test_connection"
    /\ \E ping \in CmdOutcomes :
         /\ upLog' = Append(upLog, LogEntry("test_connection",
                           IF ping = "spawn_err" THEN "err" ELSE ping))
         /\ UpStepReturns("up_test_connection", StatusResultOk(ping))
    /\ UNCHANGED <<exitCode, givenVars, providerVars, server, polls, localVars,
                   sshRetries, cleanVars, signalled, fipFailed, requests,
                   proxyVars>>

\* ----------------------------------------- manager.rs: TunnelManager::clean

\* clean() removing the config directory before it destroys the server
CleanOrderDirBeforeDestroy ==
    <<"clean_bring_down_local_wg", "clean_config_dir", "clean_destroy",
      "clean_returned">>

\* the teardown actions of clean(), in program order
CleanOrder == <<"clean_bring_down_local_wg", "clean_destroy",
                "clean_config_dir", "clean_returned">>

\* clean() with `?` after each teardown action
CleanNextPropagate(step, ok) ==
    LET order == <<"clean_bring_down_local_wg", "clean_destroy",
                   "clean_config_dir", "clean_returned">>
        i == CHOOSE j \in 1..Len(order) : order[j] = step
    IN  IF ok THEN order[i + 1] ELSE "clean_returned"

\* where clean() goes after `step`: the results of bring_down_local_wg and
\* of destroy are dropped (let _ =), clean_config_dir is the last statement
CleanNext(step, ok) ==
    LET i == CHOOSE j \in 1..Len(CleanOrder) : CleanOrder[j] = step
    IN  CleanOrder[i + 1]

\* the caller enters clean()
EnterClean(caller) ==
    /\ pc' = "clean_bring_down_local_wg"
    /\ cleanCaller' = caller
    /\ cleanCount' = cleanCount + 1
    /\ cleanLog' = <<>>

CleanBringDownLocalWg ==
    /\ pc = "clean_bring_down_local_wg"
    /\ \E mk \in {"ok", "mkdir_err"}, cmd \in CmdOutcomes :
         LET d == BringDownLocalWg(mk, cmd) IN
         /\ dirExists' = d.dir
         /\ wgUp' = d.wg
         /\ cleanLog' = Append(cleanLog,
                               LogEntry("bring_down_local_wg", d.status))
         /\ pc' = CleanNext("clean_bring_down_local_wg", d.status # "err")
    /\ UNCHANGED <<exitCode, givenVars, providerVars, server, polls, files,
                   remoteWgUp, upVars, cleanCount, cleanCaller, destroyLog,
                   signalled, fipFailed, requests, proxyVars>>

\* DigitalOceanSshKey::destroy: DELETE account/keys/<id>
SshKeyDestroyOk(resp) == resp = "ok"

\* Droplet::destroy without error_for_status() on the Droplet deletion
DropletDestroyUnchecked(handle, keyResp, dropResp) ==
    LET keyOk == ~handle.ssh_pubkey \/ keyResp = "ok"
        keyReq == IF handle.ssh_pubkey THEN <<"DELETE account/keys/id">>
                  ELSE <<>>
    IN
    IF ~keyOk
      THEN [result |-> "Err", reqs |-> keyReq,
            key |-> keyExists, droplet |-> dropletExists]
      ELSE [result |-> IF dropResp # "net_error" THEN "Ok" ELSE "Err",
            reqs |-> keyReq \o <<"DELETE droplets/id">>,
            key |-> IF handle.ssh_pubkey THEN FALSE ELSE keyExists,
            droplet |-> IF dropResp = "ok" THEN FALSE ELSE dropletExists]

\* Droplet::destroy on `handle`: the key is deleted first and its error is
\* returned through `?`; then DELETE droplets/<id>
DropletDestroy(handle, keyResp, dropResp) ==
    LET keyOk == ~handle.ssh_pubkey \/ SshKeyDestroyOk(keyResp)
        keyReq == IF handle.ssh_pubkey THEN <<"DELETE account/keys/id">>
                  ELSE <<>>
    IN
    IF ~keyOk
      THEN [result |-> "Err", reqs |-> keyReq,
            key |-> keyExists, droplet |-> dropletExists]
      ELSE [result |-> IF dropResp = "ok" THEN "Ok" ELSE "Err",
            reqs |-> keyReq \o <<"DELETE droplets/id">>,
            key |-> IF handle.ssh_pubkey THEN FALSE ELSE keyExists,
            droplet |-> IF dropResp = "ok" THEN FALSE ELSE dropletExists]

\* one call of destroy(), with the provider's state before and after it
DestroyCall(keyResp, dropResp) ==
    LET d == DropletDestroy(server, keyResp, dropResp) IN
    /\ keyExists' = d.key
    /\ dropletExists' = d.droplet
    /\ dropletStatus' = IF d.droplet THEN dropletStatus ELSE "none"
    /\ fipBound' = (fipBound /\ d.droplet)
    /\ requests' = requests \o d.reqs
    /\ destroyLog' = Append(destroyLog,
           [preKey |-> keyExists, preDroplet |-> dropletExists,
            result |-> d.result, reqs |-> d.reqs,
            keyResp |-> IF server.ssh_pubkey THEN keyResp ELSE "none",
            dropResp |-> IF Len(d.reqs) > 0 /\ d.reqs[Len(d.reqs)] = "DELETE droplets/id"
                           THEN dropResp ELSE "none",
            postKey |-> d.key, postDroplet |-> d.droplet])

CleanDestroy ==
    /\ pc = "clean_destroy"
    /\ \E keyResp \in HttpOutcomes(keyExists),
          dropResp \in HttpOutcomes(dropletExists) :
         /\ DestroyCall(keyResp, dropResp)
         /\ LET d == DropletDestroy(server, keyResp, dropResp) IN
            /\ cleanLog' = Append(cleanLog, LogEntry("destroy",
                                  IF d.result = "Ok" THEN "ok" ELSE "err"))
            /\ pc' = CleanNext("clean_destroy", d.result = "Ok")
    /\ UNCHANGED <<exitCode, givenVars, server, polls, localVars, upVars,
                   cleanCount, cleanCaller, signalled, fipFailed, proxyVars>>

CleanCleanConfigDir ==
    /\ pc = "clean_config_dir"
    /\ \E mk \in {"ok", "mkdir_err"}, rm \in {"ok", "remove_err"} :
         LET r == CleanConfigDirResult(mk, rm) IN
         /\ dirExists' = r.dir
         /\ files' = r.files
         /\ cleanLog' = Append(cleanLog, LogEntry("clean_config_dir",
                               IF r.ok THEN "ok" ELSE "err"))
         /\ pc' = CleanNext("clean_config_dir", r.ok)
    /\ UNCHANGED <<exitCode, givenVars, providerVars, server, polls, wgUp,
                   remoteWgUp, upVars, cleanCount, cleanCaller, destroyLog,
                   signalled, fipFailed, requests, proxyVars>>

\* ------------------------------------------------ main.rs: after mgr.up()

\* Ok(_) of mgr.up()
MainUpOk ==
    /\ pc = "up_returned" /\ upResult = "ok"
    /\ pc' = "floating_ip"
    /\ UNCHANGED <<exitCode, givenVars, providerVars, server, polls, localVars,
                   upVars, cleanVars, signalled, fipFailed, requests, proxyVars>>

\* Err(e) of mgr.up(): mgr.clean().await
MainUpErr ==
    /\ pc = "up_returned" /\ upResult = "err"
    /\ EnterClean("up_failed")
    /\ UNCHANGED <<exitCode, givenVars, providerVars, server, polls, localVars,
                   upVars, destroyLog, signalled, fipFailed, requests,
                   proxyVars>>

\* ... then an exit with status 1
MainUpErrExitOne ==
    /\ pc = "clean_returned" /\ cleanCaller = "up_failed"
    /\ Exit(ExitMainErr)
    /\ UNCHANGED <<givenVars, providerVars, server, polls, localVars, upVars,
                   cleanVars, signalled, fipFailed, requests, proxySpawned>>

\* ... then std::process::exit(2)
MainUpErrExit ==
    /\ pc = "clean_returned" /\ cleanCaller = "up_failed"
    /\ Exit(ExitUpFailed)
    /\ UNCHANGED <<givenVars, providerVars, server, polls, localVars, upVars,
                   cleanVars, signalled, fipFailed, requests, proxySpawned>>

\* if floating_ip != "None" { mgr.assign_floating_ip(floating_ip).await?; }
MainFloatingIp ==
    /\ pc = "floating_ip"
    /\ IF floating_ip
         THEN \E resp \in HttpOutcomes(TRUE) :
                /\ requests' = Append(requests, "POST floating_ips/ip/actions")
                /\ fipBound' = (resp = "ok")
                /\ fipFailed' = ~FloatingIpAssign(resp)
                /\ IF FloatingIpAssign(resp)
                     THEN pc' = "ready" /\ UNCHANGED <<exitCode, listeners>>
                     ELSE Exit(ExitMainErr)
         ELSE /\ pc' = "ready"
              /\ UNCHANGED <<requests, fipBound, fipFailed, exitCode,
                             listeners>>
    /\ UNCHANGED <<givenVars, keyExists, dropletExists, dropletStatus, server,
                   polls, localVars, upVars, cleanVars, signalled,
                   proxySpawned>>

\* main with tokio::spawn(run_proxy(..)) placed before `match mgr.up()`
MainSpawnProxyEarly ==
    \/ /\ pc = "up_wait_for_ssh"
       /\ ~proxySpawned /\ ~destLocal
       /\ proxySpawned' = TRUE
       /\ UNCHANGED <<pc, exitCode, givenVars, providerVars, server, polls,
                      localVars, upVars, cleanVars, signalled, fipFailed,
                      requests, listeners>>
    \/ /\ pc = "ready"
       /\ pc' = "blocking"
       /\ UNCHANGED <<exitCode, givenVars, providerVars, server, polls,
                      localVars, upVars, cleanVars, signalled, fipFailed,
                      requests, proxyVars>>

\* if dest_ip != "127.0.0.1" { tokio::spawn(run_proxy(..)) }; mgr.block()
MainSpawnProxy ==
    /\ pc = "ready"
    /\ proxySpawned' = ~destLocal
    /\ pc' = "blocking"
    /\ UNCHANGED <<exitCode, givenVars, providerVars, server, polls, localVars,
                   upVars, cleanVars, signalled, fipFailed, requests,
                   listeners>>

\* ------------------------------------------ manager.rs: TunnelManager::block

\* signal::ctrl_c().await is Ok(()): self.clean().await?
BlockSignal ==
    /\ pc = "blocking"
    /\ signalled' = TRUE
    /\ EnterClean("signal")
    /\ UNCHANGED <<exitCode, givenVars, providerVars, server, polls, localVars,
                   upVars, destroyLog, fipFailed, requests, proxyVars>>

\* clean() returned to block(): Ok => exit(0); Err => block() returns it,
\* main drops it (mgr.block().await;) and returns Ok(())
BlockCleanReturned ==
    /\ pc = "clean_returned" /\ cleanCaller = "signal"
    /\ Exit(ExitClean)
    /\ UNCHANGED <<givenVars, providerVars, server, polls, localVars, upVars,
                   cleanVars, signalled, fipFailed, requests, proxySpawned>>

\* signal::ctrl_c().await is Err(e): exit(10)
BlockHandlerFailed ==
    /\ pc = "blocking"
    /\ Exit(ExitHandlerFailed)
    /\ UNCHANGED <<givenVars, providerVars, server, polls, localVars, upVars,
                   cleanVars, signalled, fipFailed, requests, proxySpawned>>

\* SIGINT handled by a handler installed before up(): clean() starts where
\* the main task happens to be
SigintRunsClean ==
    /\ pc \notin {"start", "blocking", "exited"}
    /\ ~signalled
    /\ signalled' = TRUE
    /\ EnterClean("signal")
    /\ UNCHANGED <<exitCode, givenVars, providerVars, server, polls, localVars,
                   upVars, destroyLog, fipFailed, requests, proxyVars>>

\* SIGINT while no handler is installed (block() has not polled ctrl_c yet):
\* the default disposition ends the process
SigintDefault ==
    /\ pc \notin {"start", "blocking", "exited"}
    /\ ~signalled
    /\ Exit(KilledBySigint)
    /\ UNCHANGED <<givenVars, providerVars, server, polls, localVars, upVars,
                   cleanVars, signalled, fipFailed, requests, proxySpawned>>

\* ------------------------------------- manager.rs run_proxy, proxy.rs

\* the listen and destination addresses run_proxy derives from a ServicePort
ListenPort(s) == s.local_port
\* run_proxy forwarding to the port it listens on
DestPortLocal(s) == s.local_port
DestPort(s) == s.port

\* proxy_handler of service i binds its listener
ProxyBind(i) ==
    /\ proxySpawned
    /\ pc # "exited"
    /\ i \notin listeners
    /\ listeners' = listeners \cup {i}
    /\ UNCHANGED <<pc, exitCode, givenVars, providerVars, server, polls,
                   localVars, upVars, cleanVars, signalled, fipFailed,
                   requests, proxySpawned>>

\* ---------------------------------------------------------- specification

Next ==
    \/ MainCheckToken
    \/ NewCleanConfigDir
    \/ NewWireguard
    \/ NewSshKeypairs
    \/ DropletNewUserData
    \/ DropletNewRegisterKey
    \/ DropletNewCreate
    \/ DropletWaitForBoot
    \/ NewStaticIp
    \/ MainNewErr
    \/ MainNewOk
    \/ UpWaitForSsh
    \/ UpWaitForCloudinit
    \/ UpWriteLocally
    \/ UpBringUpRemoteWg
    \/ UpBringUpLocalWg
    \/ UpTestConnection
    \/ MainUpOk
    \/ MainUpErr
    \/ MainUpErrExit
    \/ CleanBringDownLocalWg
    \/ CleanDestroy
    \/ CleanCleanConfigDir
    \/ MainFloatingIp
    \/ MainSpawnProxy
    \/ BlockSignal
    \/ BlockCleanReturned
    \/ BlockHandlerFailed
    \/ SigintDefault
    \/ \E i \in 1..Len(services) : ProxyBind(i)

Spec == Init /\ [][Next]_vars

\* ------------------------------------- one `up` run until up() has returned

\* the run has its token, a --dest-ip that parses and --ports 80:8000
InitUp ==
    /\ Init
    /\ tokenSet /\ destParses /\ ~floating_ip
    /\ port_spec = <<"8", "0", ":", "8", "0", "0", "0">>

NextUp ==
    \/ MainCheckToken
    \/ NewCleanConfigDir
    \/ NewWireguard
    \/ NewSshKeypairs
    \/ DropletNewUserData
    \/ DropletNewRegisterKey
    \/ DropletNewCreate
    \/ DropletWaitForBoot
    \/ NewStaticIp
    \/ MainNewErr
    \/ MainNewOk
    \/ UpWaitForSsh
    \/ UpWaitForCloudinit
    \/ UpWriteLocally
    \/ UpBringUpRemoteWg
    \/ UpBringUpLocalWg
    \/ UpTestConnection

\* TcpStream::connect of wait_for_ssh is Ok
SshConnects == UpWaitForSsh /\ pc' # pc

\* TcpStream::connect of wait_for_ssh is Err: sleep, then connect again
SshRefused == UpWaitForSsh /\ pc' = pc

\* port 22 of the server eventually accepts a connection, and every
\* subprocess up() waits for (ssh, wg-quick, ping) terminates, as does every
\* write to the config directory
UpFairness ==
    /\ WF_vars(SshConnects)
    /\ WF_vars(UpWaitForCloudinit)
    /\ WF_vars(UpWriteLocally)
    /\ WF_vars(UpBringUpRemoteWg)
    /\ WF_vars(UpBringUpLocalWg)
    /\ WF_vars(UpTestConnection)

SpecUp == InitUp /\ [][NextUp]_vars /\ UpFairness

\* every step of SpecUp is as likely as the others to be taken eventually,
\* but nothing says that port 22 accepts a connection
SpecUpNoAccept == InitUp /\ [][NextUp]_vars /\ WF_vars(NextUp)

\* ------------------------------------- Droplet::destroy applied repeatedly

\* a handle as Droplet::new returns it (ssh_pubkey is Some) or as it is
\* deserialized from the API (ssh_pubkey is None), for a server and a key
\* that exist or were destroyed already
InitDestroy ==
    /\ pc = "lib_destroy"
    /\ exitCode = NotExited
    /\ tokenSet = TRUE
    /\ floating_ip = FALSE /\ static_ip = FALSE /\ destLocal = TRUE
    /\ destParses = TRUE
    /\ port_spec = <<"8", "0", ":", "8", "0", "0", "0">>
    /\ services = from_str_multi(port_spec).value
    /\ keyExists \in BOOLEAN /\ dropletExists \in BOOLEAN
    /\ dropletStatus = IF dropletExists THEN "active" ELSE "none"
    /\ fipBound = FALSE
    /\ server \in [status : {"active"}, ssh_pubkey : BOOLEAN]
    /\ polls = 0 /\ sshRetries = 0
    /\ dirExists = FALSE /\ files = {}
    /\ wgUp = FALSE /\ remoteWgUp = FALSE
    /\ upLog = <<>> /\ upResult = "none"
    /\ cleanCount = 0 /\ cleanLog = <<>> /\ cleanCaller = "none"
    /\ signalled = FALSE /\ fipFailed = FALSE
    /\ requests = <<>>
    /\ proxySpawned = FALSE /\ listeners = {}
    /\ destroyLog = <<>>
    /\ LibIdle

\* server.destroy().await
LibDestroy ==
    /\ pc = "lib_destroy"
    /\ Len(destroyLog) < MaxDestroyCalls
    /\ \E keyResp \in HttpOutcomes(keyExists),
          dropResp \in HttpOutcomes(dropletExists) :
         DestroyCall(keyResp, dropResp)
    /\ UNCHANGED <<pc, exitCode, givenVars, server, polls, localVars, upVars,
                   cleanCount, cleanLog, cleanCaller, signalled, fipFailed,
                   proxyVars>>

NextDestroy == LibDestroy

SpecDestroy == InitDestroy /\ [][NextDestroy]_vars

\* -------------------------------------- config.rs: the parser on its own

\* longest &str given to from_str_multi
MaxSpecLen == 4

\* the characters of the port specifications that are tried
SpecAlphabet == {"8", "0", ":", "/", ",", "-", "a"}

\* no `up` subcommand is running
MainIdle ==
    /\ pc = "lib"
    /\ exitCode = NotExited
    /\ tokenSet = TRUE
    /\ floating_ip = FALSE /\ static_ip = FALSE /\ destLocal = TRUE
    /\ destParses = TRUE
    /\ port_spec = <<>> /\ services = <<>>
    /\ keyExists = FALSE /\ dropletExists = FALSE
    /\ dropletStatus = "none" /\ fipBound = FALSE
    /\ server = NoServer
    /\ polls = 0 /\ sshRetries = 0
    /\ dirExists = FALSE /\ files = {}
    /\ wgUp = FALSE /\ remoteWgUp = FALSE
    /\ upLog = <<>> /\ upResult = "none"
    /\ cleanCount = 0 /\ cleanLog = <<>> /\ cleanCaller = "none"
    /\ signalled = FALSE /\ fipFailed = FALSE
    /\ requests = <<>>
    /\ proxySpawned = FALSE /\ listeners = {}
    /\ destroyLog = <<>>

InitParser ==
    /\ MainIdle /\ AuxIdle /\ SubnetIdle /\ HostIdle /\ EngineIdle
    /\ parseInput \in UNION {[1..n -> SpecAlphabet] : n \in 0..MaxSpecLen}
    /\ parseResult = NotCalled

\* ServicePort::from_str_multi(port_spec)
CallFromStrMulti ==
    /\ parseResult = NotCalled
    /\ LET r == from_str_multi(parseInput) IN
       parseResult' = [status |-> IF r.ok THEN "Ok" ELSE "Err",
                       value |-> r.value]
    /\ UNCHANGED <<mainVars, auxVars, parseInput, subnetVars, hostVars, engineVars>>

NextParser == CallFromStrMulti

SpecParser == InitParser /\ [][NextParser]_vars

\* ---------------------------------------------------------------- net.rs

\* an IPv4 address is its 32-bit number
Ipv4(a, b, c, d) == ((a * 256 + b) * 256 + c) * 256 + d

\* "10.50.0.1/28".parse::<IpNet>(): the address as written, and the prefix
INNISFREE_SUBNET == [addr |-> Ipv4(10, 50, 0, 1), prefix_len |-> 28]

\* number of addresses of a network with this prefix length
NetSize(prefix_len) == 2 ^ (32 - prefix_len)

\* IpNet::network and IpNet::broadcast
Network(n) == n.addr - (n.addr % NetSize(n.prefix_len))
Broadcast(n) == Network(n) + NetSize(n.prefix_len) - 1

\* IpNet::subnets(new_prefix_len): an error for a shorter prefix, else the
\* networks of that prefix length from network() to broadcast(), ascending
Subnets(n, new_prefix_len) ==
    IF new_prefix_len < n.prefix_len \/ new_prefix_len > 32
      THEN [ok |-> FALSE, value |-> <<>>]
      ELSE [ok |-> TRUE,
            value |-> [i \in 1..(NetSize(n.prefix_len) \div NetSize(new_prefix_len))
                        |-> [addr |-> Network(n) + (i - 1) * NetSize(new_prefix_len),
                             prefix_len |-> new_prefix_len]]]

\* IpNet::hosts: without the network and broadcast addresses, unless the
\* prefix is /31 or /32
Hosts(n) ==
    IF n.prefix_len >= 31
      THEN [i \in 1..NetSize(n.prefix_len) |-> Network(n) + i - 1]
      ELSE [i \in 1..(NetSize(n.prefix_len) - 2) |-> Network(n) + i]

\* address_in_use, given the addresses of pnet::datalink::interfaces()
address_in_use(ip, addrs) == ip \in addrs

\* subnet_available with only the first host address looked at
SubnetAvailableFirstHost(n, addrs) == ~address_in_use(Hosts(n)[1], addrs)

\* subnet_available
subnet_available(n, addrs) ==
    \A i \in 1..Len(Hosts(n)) : ~address_in_use(Hosts(n)[i], addrs)

\* the loop of generate_unused_subnet over the subnets that are left
RECURSIVE FirstUnused(_, _)
FirstUnused(subnets, addrs) ==
    IF subnets = <<>> THEN [status |-> "Err"]
    ELSE IF Len(Hosts(Head(subnets))) > 2
      THEN FirstUnused(Tail(subnets), addrs)
    ELSE IF subnet_available(Head(subnets), addrs)
      THEN [status |-> "Ok", value |-> Head(subnets)]
    ELSE FirstUnused(Tail(subnets), addrs)

\* generate_unused_subnet on a host whose interfaces have the addresses addrs
generate_unused_subnet(addrs) ==
    LET subnets == Subnets(INNISFREE_SUBNET, 30)
    IN  IF ~subnets.ok THEN [status |-> "Err"]
        ELSE FirstUnused(subnets.value, addrs)

\* addresses a host interface may have: those of 10.50.0.0/28 and the one
\* that follows the block
HostAddresses ==
    {Network(INNISFREE_SUBNET) + k : k \in 0..NetSize(INNISFREE_SUBNET.prefix_len)}

InitSubnet ==
    /\ MainIdle /\ AuxIdle /\ ParserIdle /\ HostIdle /\ EngineIdle
    /\ bound \in SUBSET HostAddresses
    /\ subnetResult = NotCalled

\* generate_unused_subnet()
CallGenerateUnusedSubnet ==
    /\ subnetResult = NotCalled
    /\ subnetResult' = generate_unused_subnet(bound)
    /\ UNCHANGED <<mainVars, auxVars, parserVars, bound, hostVars, engineVars>>

NextSubnet == CallGenerateUnusedSubnet

SpecSubnet == InitSubnet /\ [][NextSubnet]_vars

\* ------------------------------------------- two `up` processes, one host

\* values of --name: "foo", "bar" and "foo-innisfree"
NameArgs ==
    { <<"f", "o", "o">>, <<"b", "a", "r">>,
      <<"f", "o", "o", "-">> \o Innisfree }

\* the two processes
Procs == {1, 2}

\* main.rs: tunnel_name = config::clean_name(--name)
TunnelName(p) == clean_name(tunnels[p].name)

\* make_config_dir: ~/.config/innisfree/<service_name>, by its last component
ConfigDirShared(service_name) == <<>>
ConfigDir(service_name) == service_name

\* wg-quick names the interface after <config_dir>/<name>.conf
IfaceName(service_name) == service_name

\* addresses of pnet::datalink::interfaces() on the host
IfaceAddresses == {i.address : i \in hostIfaces}

InitHost ==
    /\ MainIdle /\ AuxIdle /\ ParserIdle /\ SubnetIdle /\ EngineIdle
    /\ \E a \in NameArgs : \E b \in NameArgs \ {a} :
         tunnels = [p \in Procs |->
                      [name |-> IF p = 1 THEN a ELSE b, pc |-> "new",
                       subnet |-> NotCalled, droplet |-> 0, upOk |-> FALSE]]
    /\ hostIfaces = {}
    /\ hostDirs = {}
    /\ droplets = {}

\* process p goes on to `to` with the fields `changes` of its record replaced
Goto(p, to, changes) ==
    tunnels' = [tunnels EXCEPT ![p] =
        [f \in DOMAIN @ |-> IF f = "pc" THEN to
                            ELSE IF f \in DOMAIN changes THEN changes[f]
                            ELSE @[f]]]

NoChange == [x \in {} |-> 0]

\* the config directories without that of service_name
WithoutDir(service_name) ==
    {d \in hostDirs : d.name # ConfigDir(service_name)}

\* the files of the config directory of service_name, none if it is missing
FilesOf(service_name) ==
    UNION {d.files : d \in hostDirs \ WithoutDir(service_name)}

\* TunnelManager::new: clean_config_dir(tunnel_name)?
TunnelCleanConfigDir(p) ==
    /\ tunnels[p].pc = "new"
    /\ \E ok \in BOOLEAN :
         IF ok THEN /\ hostDirs' = WithoutDir(TunnelName(p))
                    /\ Goto(p, "wireguard", NoChange)
               ELSE /\ Goto(p, "exited", NoChange)
                    /\ UNCHANGED hostDirs
    /\ UNCHANGED <<mainVars, auxVars, parserVars, subnetVars, hostIfaces, droplets,
                   engineVars>>

\* TunnelManager::new: WireguardManager::new, generate_unused_subnet()?
TunnelWireguard(p) ==
    /\ tunnels[p].pc = "wireguard"
    /\ LET wg_subnet == generate_unused_subnet(IfaceAddresses) IN
       Goto(p, IF wg_subnet.status = "Ok" THEN "droplet" ELSE "exited",
            [subnet |-> wg_subnet])
    /\ UNCHANGED <<mainVars, auxVars, parserVars, subnetVars, hostIfaces, hostDirs,
                   droplets, engineVars>>

\* TunnelManager::new: Droplet::new(..).await?; an Err ends in exit(2)
TunnelDroplet(p) ==
    /\ tunnels[p].pc = "droplet"
    /\ \E resp \in HttpOutcomes(TRUE) :
         IF resp = "ok"
           THEN /\ droplets' = droplets \cup {p}
                /\ Goto(p, "write_locally", [droplet |-> p])
           ELSE /\ Goto(p, "exited", NoChange)
                /\ UNCHANGED droplets
    /\ UNCHANGED <<mainVars, auxVars, parserVars, subnetVars, hostIfaces, hostDirs,
                   engineVars>>

\* up(): the ssh steps write the client keypair and known_hosts, then
\* write_locally writes <name>.conf; an Err goes to clean()
TunnelWriteLocally(p) ==
    /\ tunnels[p].pc = "write_locally"
    /\ \E out \in FsOutcomes :
         /\ hostDirs' =
               IF out = "mkdir_err" THEN hostDirs
               ELSE WithoutDir(TunnelName(p)) \cup
                    {[name |-> ConfigDir(TunnelName(p)),
                      files |-> IF out = "ok"
                                  THEN FilesOf(TunnelName(p)) \cup
                                       {"client_id_ed25519", "known_hosts",
                                        "wg.conf"}
                                  ELSE FilesOf(TunnelName(p))]}
         /\ Goto(p, IF out = "ok" THEN "bring_up_local_wg" ELSE "clean_wg",
                 NoChange)
    /\ UNCHANGED <<mainVars, auxVars, parserVars, subnetVars, hostIfaces, droplets,
                   engineVars>>

\* the interfaces after `wg-quick down <config_dir>/<name>.conf` ended with
\* status cmd: status 0 means the interface of that name was removed
WgQuickDown(service_name, cmd) ==
    IF cmd = "zero"
      THEN {i \in hostIfaces : i.name # IfaceName(service_name)}
      ELSE hostIfaces

\* wg-quick down can end with status 0 only if the interface exists
DownOutcomes(service_name) ==
    IF \E i \in hostIfaces : i.name = IfaceName(service_name)
      THEN CmdOutcomes ELSE CmdOutcomes \ {"zero"}

\* up(): bring_up_local_wg (wg-quick down, its result dropped, then wg-quick
\* up, which fails if the interface exists) and test_connection; only a
\* failed spawn is an Err
TunnelBringUpLocalWg(p) ==
    /\ tunnels[p].pc = "bring_up_local_wg"
    /\ \E down \in DownOutcomes(TunnelName(p)), up \in CmdOutcomes :
         LET ifaces1 == WgQuickDown(TunnelName(p), down)
             exists == \E i \in ifaces1 : i.name = IfaceName(TunnelName(p))
         IN
         /\ up = "zero" => ~exists
         /\ hostIfaces' =
               IF up = "zero"
                 THEN ifaces1 \cup
                      {[name |-> IfaceName(TunnelName(p)),
                        address |-> Hosts(tunnels[p].subnet.value)[1]]}
                 ELSE ifaces1
         /\ IF StatusResultOk(up)
              THEN Goto(p, "blocking", [upOk |-> TRUE])
              ELSE Goto(p, "clean_wg", NoChange)
    /\ UNCHANGED <<mainVars, auxVars, parserVars, subnetVars, hostDirs, droplets,
                   engineVars>>

\* block(): ctrl_c() resolved, clean() is entered
TunnelSignal(p) ==
    /\ tunnels[p].pc = "blocking"
    /\ Goto(p, "clean_wg", NoChange)
    /\ UNCHANGED <<mainVars, auxVars, parserVars, subnetVars, hostIfaces, hostDirs,
                   droplets, engineVars>>

\* clean(): let _ = self.bring_down_local_wg()
TunnelCleanWg(p) ==
    /\ tunnels[p].pc = "clean_wg"
    /\ \E down \in DownOutcomes(TunnelName(p)) :
         hostIfaces' = WgQuickDown(TunnelName(p), down)
    /\ Goto(p, "clean_destroy", NoChange)
    /\ UNCHANGED <<mainVars, auxVars, parserVars, subnetVars, hostDirs, droplets,
                   engineVars>>

\* clean(): let _ = self.server.destroy().await, DELETE droplets/<id>
TunnelCleanDestroy(p) ==
    /\ tunnels[p].pc = "clean_destroy"
    /\ \E resp \in HttpOutcomes(tunnels[p].droplet \in droplets) :
         droplets' = IF resp = "ok" THEN droplets \ {tunnels[p].droplet}
                     ELSE droplets
    /\ Goto(p, "clean_config_dir", NoChange)
    /\ UNCHANGED <<mainVars, auxVars, parserVars, subnetVars, hostIfaces, hostDirs,
                   engineVars>>

\* clean(): clean_config_dir(&self.name), then the process exits
TunnelCleanDir(p) ==
    /\ tunnels[p].pc = "clean_config_dir"
    /\ \E ok \in BOOLEAN :
         hostDirs' = IF ok THEN WithoutDir(TunnelName(p)) ELSE hostDirs
    /\ Goto(p, "exited", NoChange)
    /\ UNCHANGED <<mainVars, auxVars, parserVars, subnetVars, hostIfaces, droplets,
                   engineVars>>

NextHost ==
    \E p \in Procs :
        \/ TunnelCleanConfigDir(p)
        \/ TunnelWireguard(p)
        \/ TunnelDroplet(p)
        \/ TunnelWriteLocally(p)
        \/ TunnelBringUpLocalWg(p)
        \/ TunnelSignal(p)
        \/ TunnelCleanWg(p)
        \/ TunnelCleanDestroy(p)
        \/ TunnelCleanDir(p)

SpecHost == InitHost /\ [][NextHost]_vars

\* ------------------------------------- run_proxy and proxy.rs on their own

\* connections accepted by the listeners of one run_proxy
MaxConns == 2
\* successful reads of the two byte pumps of one connection
MaxCopies == 1

\* values of --ports run_proxy is tried with: "80:8000", "80:8000,443",
\* "bad", "-8" and "53/UDP"
ProxyPortSpecs ==
    { <<"8", "0", ":", "8", "0", "0", "0">>,
      <<"8", "0", ":", "8", "0", "0", "0", ",", "4", "4", "3">>,
      <<"b", "a", "d">>,
      <<"-", "8">>,
      <<"5", "3", "/", "U", "D", "P">> }

\* format!("{}:{}", ip, port).parse::<SocketAddr>() is Ok: the port is a u16
SocketAddrParses(port) == port \in 0..65535

InitProxy ==
    /\ MainIdle /\ AuxIdle /\ ParserIdle /\ SubnetIdle /\ HostIdle
    /\ \E spec \in ProxyPortSpecs :
         proxyServices = from_str_multi(spec).value
    /\ runProxy = "not called"
    /\ handlers = <<>>
    /\ conns = <<>>
    /\ refused = {}

Completed(h) == h.state \in {"Ok", "Err"}

\* a future that completes with the first proxy_handler that completes
SelectReady(hs) == \E i \in 1..Len(hs) : Completed(hs[i])

\* join_all(tasks) is ready: every proxy_handler future has completed
JoinAllReady(hs) == \A i \in 1..Len(hs) : Completed(hs[i])

\* run_proxy with try_join_all in place of join_all: the first Err of a
\* proxy_handler is returned at once
RunProxyAfterTryJoin(hs) ==
    IF \E i \in 1..Len(hs) : hs[i].state = "Err" THEN "Err"
    ELSE IF ~JoinAllReady(hs) THEN "running"
    ELSE "Ok"

\* run_proxy polls its proxy_handler futures itself, so it goes on in the
\* step that completes the last of them: the first Err is returned
RunProxyAfter(hs) ==
    IF ~JoinAllReady(hs) THEN "running"
    ELSE IF \E i \in 1..Len(hs) : hs[i].state = "Err" THEN "Err"
    ELSE "Ok"

\* run_proxy(local_ip, dest_ip, services): the addresses are built with `?`,
\* one proxy_handler future per service, then join_all
CallRunProxy ==
    /\ runProxy = "not called"
    /\ IF \A i \in 1..Len(proxyServices) :
             /\ SocketAddrParses(ListenPort(proxyServices[i]))
             /\ SocketAddrParses(DestPort(proxyServices[i]))
         THEN LET hs == [i \in 1..Len(proxyServices) |->
                           [state |-> "pending",
                            listen |-> ListenPort(proxyServices[i]),
                            dest |-> DestPort(proxyServices[i])]]
              IN  handlers' = hs /\ runProxy' = RunProxyAfter(hs)
         ELSE handlers' = <<>> /\ runProxy' = "Err"
    /\ UNCHANGED <<mainVars, auxVars, parserVars, subnetVars, hostVars, proxyServices,
                   conns, refused>>

\* the handlers listening on `port`
ListeningAt(port) ==
    {i \in 1..Len(handlers) :
        handlers[i].state = "listening" /\ handlers[i].listen = port}

\* proxy_handler: TcpListener::bind(&listen_addr).await?
HandlerBind(i) ==
    /\ runProxy = "running"
    /\ handlers[i].state = "pending"
    /\ \E ok \in BOOLEAN :
         /\ ok => ListeningAt(handlers[i].listen) = {}
         /\ LET hs == [handlers EXCEPT ![i].state =
                           IF ok THEN "listening" ELSE "Err"]
            IN  handlers' = hs /\ runProxy' = RunProxyAfter(hs)
    /\ UNCHANGED <<mainVars, auxVars, parserVars, subnetVars, hostVars, proxyServices,
                   conns, refused>>

\* proxy_handler: listener.accept() is Err, `while let Ok(..)` ends and the
\* handler returns Ok(())
HandlerAcceptErr(i) ==
    /\ runProxy = "running"
    /\ handlers[i].state = "listening"
    /\ LET hs == [handlers EXCEPT ![i].state = "Ok"]
       IN  handlers' = hs /\ runProxy' = RunProxyAfter(hs)
    /\ UNCHANGED <<mainVars, auxVars, parserVars, subnetVars, hostVars, proxyServices,
                   conns, refused>>

\* ports a client may connect to on the local address
ClientPorts ==
    {proxyServices[i].port : i \in 1..Len(proxyServices)}
        \cup {proxyServices[i].local_port : i \in 1..Len(proxyServices)}

Failed(c) == c.state = "Err"

\* a client connects to (local_ip, port): the handler listening there
\* accepts and spawns transfer(inbound, dest_addr); with no listener the
\* connection is refused
ClientConnect(port) ==
    /\ runProxy = "running"
    /\ Len(conns) + Cardinality(refused) < MaxConns
    /\ IF ListeningAt(port) # {}
         THEN LET i == CHOOSE j \in ListeningAt(port) : TRUE IN
              /\ conns' = Append(conns,
                    [handler |-> i, listen |-> port,
                     dest |-> handlers[i].dest,
                     state |-> "connecting",
                     c2s |-> "copying", s2c |-> "copying",
                     copied |-> 0, late |-> FALSE,
                     inbound |-> "open", outbound |-> "none",
                     after_failure |->
                         \E k \in 1..Len(conns) :
                             conns[k].handler = i /\ Failed(conns[k])])
              /\ UNCHANGED refused
         ELSE /\ refused' = refused \cup
                    {[port |-> port,
                      ready |-> \A i \in 1..Len(handlers) :
                                    handlers[i].state = "listening"]}
              /\ UNCHANGED conns
    /\ UNCHANGED <<mainVars, auxVars, parserVars, subnetVars, hostVars, proxyServices,
                   runProxy, handlers>>

\* proxy_handler awaiting transfer(..)? itself: an Err ends the handler
AwaitedResult(h, result) ==
    IF result = "Err" /\ h.state = "listening"
      THEN [h EXCEPT !.state = "Err"] ELSE h

\* what the result of a transfer does to the handler that accepted it: the
\* sub-task is detached by tokio::spawn and its Err is only logged
SpawnedResult(h, result) == h

\* a connection whose transfer is gone with `result`: its inbound and
\* outbound TcpStream were dropped, and so were the two pumps unless they are
\* what try_join! returned Ok for
Dropped(c, result, changes) ==
    [f \in DOMAIN c |->
        IF f = "state" THEN result
        ELSE IF f = "inbound" THEN "closed"
        ELSE IF f = "outbound"
          THEN (IF c[f] = "none" THEN "none" ELSE "closed")
        ELSE IF f = "copied" THEN 0
        ELSE IF f \in {"c2s", "s2c"}
          THEN (IF result # "Ok" THEN "dropped"
                ELSE IF f \in DOMAIN changes THEN changes[f] ELSE c[f])
        ELSE IF f = "late" THEN (result = "Ok" /\ c[f])
        ELSE c[f]]

\* transfer returned `result`
TransferReturned(k, result, changes) ==
    /\ conns' = [conns EXCEPT ![k] = Dropped(@, result, changes)]
    /\ LET hs == [handlers EXCEPT ![conns[k].handler] =
                     SpawnedResult(@, result)]
       IN  /\ handlers' = hs
           /\ runProxy' = IF runProxy = "running" THEN RunProxyAfter(hs)
                           ELSE runProxy

\* transfer: TcpStream::connect(proxy_addr).await?
TransferConnect(k) ==
    /\ conns[k].state = "connecting"
    /\ \E ok \in BOOLEAN :
         IF ok THEN /\ conns' = [conns EXCEPT ![k].state = "open",
                                              ![k].outbound = "open"]
                    /\ UNCHANGED <<runProxy, handlers>>
               ELSE TransferReturned(k, "Err", NoChange)
    /\ UNCHANGED <<mainVars, auxVars, parserVars, subnetVars, hostVars, proxyServices,
                   refused>>

\* tokio::select! in place of try_join!: the first direction to end ends
\* the transfer
TransferReturnsOnFirstEof(c2s, s2c) == c2s = "eof" \/ s2c = "eof"

\* tokio::try_join!(client_to_server, server_to_client) is Ok: both
\* directions have returned Ok
TransferReturnsOk(c2s, s2c) == c2s = "eof" /\ s2c = "eof"

\* tokio::io::copy of client_to_server moves bytes from ri to wo
CopyClientToServer(k) ==
    /\ conns[k].state = "open" /\ conns[k].c2s = "copying"
    /\ conns[k].copied < MaxCopies
    /\ conns' = [conns EXCEPT ![k].copied = @ + 1,
                              ![k].late = @ \/ conns[k].s2c = "eof"]
    /\ UNCHANGED <<mainVars, auxVars, parserVars, subnetVars, hostVars, proxyServices,
                   runProxy, handlers, refused>>

\* tokio::io::copy of server_to_client moves bytes from ro to wi
CopyServerToClient(k) ==
    /\ conns[k].state = "open" /\ conns[k].s2c = "copying"
    /\ conns[k].copied < MaxCopies
    /\ conns' = [conns EXCEPT ![k].copied = @ + 1,
                              ![k].late = @ \/ conns[k].c2s = "eof"]
    /\ UNCHANGED <<mainVars, auxVars, parserVars, subnetVars, hostVars, proxyServices,
                   runProxy, handlers, refused>>

\* client_to_server: copy returns at end-of-stream of ri, then
\* wo.shutdown().await
EofClientToServer(k) ==
    /\ conns[k].state = "open" /\ conns[k].c2s = "copying"
    /\ \E shutdown_ok \in BOOLEAN :
         IF ~shutdown_ok THEN TransferReturned(k, "Err", NoChange)
         ELSE IF TransferReturnsOk("eof", conns[k].s2c)
           THEN TransferReturned(k, "Ok", [c2s |-> "eof"])
         ELSE /\ conns' = [conns EXCEPT ![k].c2s = "eof",
                                        ![k].outbound = "write_shut"]
              /\ UNCHANGED <<runProxy, handlers>>
    /\ UNCHANGED <<mainVars, auxVars, parserVars, subnetVars, hostVars, proxyServices,
                   refused>>

\* server_to_client: copy returns at end-of-stream of ro, then
\* wi.shutdown().await
EofServerToClient(k) ==
    /\ conns[k].state = "open" /\ conns[k].s2c = "copying"
    /\ \E shutdown_ok \in BOOLEAN :
         IF ~shutdown_ok THEN TransferReturned(k, "Err", NoChange)
         ELSE IF TransferReturnsOk(conns[k].c2s, "eof")
           THEN TransferReturned(k, "Ok", [s2c |-> "eof"])
         ELSE /\ conns' = [conns EXCEPT ![k].s2c = "eof",
                                        ![k].inbound = "write_shut"]
              /\ UNCHANGED <<runProxy, handlers>>
    /\ UNCHANGED <<mainVars, auxVars, parserVars, subnetVars, hostVars, proxyServices,
                   refused>>

\* tokio::io::copy of a direction that is still copying returns Err:
\* try_join! returns it and drops the other direction
PumpErr(k) ==
    /\ conns[k].state = "open"
    /\ conns[k].c2s = "copying" \/ conns[k].s2c = "copying"
    /\ TransferReturned(k, "Err", NoChange)
    /\ UNCHANGED <<mainVars, auxVars, parserVars, subnetVars, hostVars, proxyServices,
                   refused>>

\* the runtime shuts down (process exit): the run_proxy future, its
\* handlers and the transfers that have not returned are dropped
ProxyCancel ==
    /\ runProxy = "running"
    /\ runProxy' = "cancelled"
    /\ handlers' = [i \in 1..Len(handlers) |->
          IF Completed(handlers[i]) THEN handlers[i]
          ELSE [handlers[i] EXCEPT !.state = "cancelled"]]
    /\ conns' = [k \in 1..Len(conns) |->
          IF conns[k].state \in {"connecting", "open"}
            THEN Dropped(conns[k], "cancelled", NoChange)
            ELSE conns[k]]
    /\ UNCHANGED <<mainVars, auxVars, parserVars, subnetVars, hostVars, proxyServices,
                   refused>>

NextProxy ==
    \/ CallRunProxy
    \/ \E i \in 1..Len(handlers) : HandlerBind(i)
    \/ \E i \in 1..Len(handlers) : HandlerAcceptErr(i)
    \/ \E port \in ClientPorts : ClientConnect(port)
    \/ \E k \in 1..Len(conns) : TransferConnect(k)
    \/ \E k \in 1..Len(conns) : CopyClientToServer(k)
    \/ \E k \in 1..Len(conns) : CopyServerToClient(k)
    \/ \E k \in 1..Len(conns) : EofClientToServer(k)
    \/ \E k \in 1..Len(conns) : EofServerToClient(k)
    \/ \E k \in 1..Len(conns) : PumpErr(k)
    \/ ProxyCancel

SpecProxy == InitProxy /\ [][NextProxy]_vars

\* ------------------------------------- config.rs: clean_name on its own

\* a name is made of at most this many pieces
MaxPieces == 4
\* clean_name is applied at most this many times in a row
MaxCleanCalls == 2

\* the pieces the values of --name are made of: "innisfree", "-", "foo"
NamePieces == {Innisfree, <<"-">>, <<"f", "o", "o">>}

RECURSIVE Concat(_)
Concat(pieces) ==
    IF pieces = <<>> THEN <<>> ELSE Head(pieces) \o Concat(Tail(pieces))

\* the values of --name that are tried
NameInputs ==
    {Concat(ps) : ps \in UNION {[1..n -> NamePieces] : n \in 0..MaxPieces}}

InitName ==
    /\ MainIdle /\ CoreIdle /\ StoreIdle /\ WgIdle
    /\ nameInput \in NameInputs
    /\ nameResults = <<>>

\* config::clean_name(name), on the argument first and then on what the
\* previous call returned
CallCleanName ==
    /\ Len(nameResults) < MaxCleanCalls
    /\ nameResults' = Append(nameResults,
           clean_name(IF nameResults = <<>> THEN nameInput
                      ELSE nameResults[Len(nameResults)]))
    /\ UNCHANGED <<mainVars, coreVars, nameInput, storeVars, wgVars>>

NextName == CallCleanName

SpecName == InitName /\ [][NextName]_vars

\* ------------------ manager.rs: known_hosts, get_server_ip, open_shell

\* Display of an integer in decimal
RECURSIVE ToDecimal(_)
ToDecimal(n) ==
    IF n < 10 THEN <<Digits[n + 1]>>
    ELSE ToDecimal(n \div 10) \o <<Digits[(n % 10) + 1]>>

\* Display of an IPv4 address: the four octets in decimal, joined by "."
FormatIpv4(ip) ==
    ToDecimal(ip[1]) \o <<".">> \o ToDecimal(ip[2]) \o <<".">>
        \o ToDecimal(ip[3]) \o <<".">> \o ToDecimal(ip[4])

\* one octet of a dotted quad: one to three decimal digits, at most 255
ParseOctet(s) ==
    IF Len(s) \in 1..3 /\ (\A i \in 1..Len(s) : IsDigit(s[i]))
         /\ DecimalValue(s) <= 255
      THEN [ok |-> TRUE, value |-> DecimalValue(s)]
      ELSE [ok |-> FALSE, value |-> 0]

\* str::parse::<IpAddr> of a dotted quad
ParseIpAddr(s) ==
    LET parts == Split(s, ".") IN
    IF Len(parts) = 4 /\ \A i \in 1..4 : ParseOctet(parts[i]).ok
      THEN [ok |-> TRUE, value |-> [i \in 1..4 |-> ParseOctet(parts[i]).value]]
      ELSE [ok |-> FALSE, value |-> <<>>]

\* the public key of the server's SSH host keypair, "ssh-ed25519 AAAA"
HostKey ==
    <<"s", "s", "h", "-", "e", "d", "2", "5", "5", "1", "9", " ",
      "A", "A", "A", "A">>

\* known_hosts with the key in front of the address
HostLineKeyFirst(ipv4_address, server_host_key) ==
    server_host_key \o <<" ">> \o FormatIpv4(ipv4_address)

\* TunnelManager::known_hosts: format!("{} {}", ipv4_address, server_host_key)
HostLine(ipv4_address, server_host_key) ==
    FormatIpv4(ipv4_address) \o <<" ">> \o server_host_key

\* a file that does not exist, and a file with `content`
NoFile == [present |-> FALSE, content |-> <<>>]
File(content) == [present |-> TRUE, content |-> content]

\* a directory below the config root that does not exist
NoDir == [dir |-> FALSE, known_hosts |-> NoFile]

\* public IPv4 addresses a server may have; <<>> stands for a handle whose
\* networks hold no public v4 entry
ServerAddrs == {<<203, 0, 113, 9>>, <<10, 0, 0, 255>>}
NoManager == [up |-> FALSE, addr |-> <<>>]

\* names of tunnels, as clean_name returns them
StoreNames == {clean_name(a) : a \in NameArgs}

InitStore ==
    /\ MainIdle /\ CoreIdle /\ NameIdle /\ WgIdle
    /\ tunnelAddr = [n \in StoreNames |-> NoManager]
    /\ store = [n \in StoreNames |-> NoDir]
    /\ lastCmd = NotCalled

\* config.rs make_config_dir on the directory `d`: create_dir_all
make_config_dir(d, mk) ==
    IF mk = "ok" THEN [ok |-> TRUE, dir |-> [d EXCEPT !.dir = TRUE]]
    ELSE [ok |-> FALSE, dir |-> d]

\* config.rs clean_config_dir on the directory `d`
clean_config_dir(d, mk, rm) ==
    LET made == make_config_dir(d, mk) IN
    IF ~made.ok THEN made
    ELSE IF rm = "ok" THEN [ok |-> TRUE, dir |-> NoDir]
    ELSE [ok |-> FALSE, dir |-> made.dir]

\* `up --name arg`: TunnelManager::new, which starts with clean_config_dir,
\* for a server whose public address is `addr`
TunnelNew(arg, addr) ==
    LET name == clean_name(arg) IN
    /\ ~tunnelAddr[name].up
    /\ \E mk \in {"ok", "mkdir_err"}, rm \in {"ok", "remove_err"} :
         LET r == clean_config_dir(store[name], mk, rm) IN
         /\ store' = [store EXCEPT ![name] = r.dir]
         /\ tunnelAddr' = IF r.ok
                            THEN [tunnelAddr EXCEPT
                                     ![name] = [up |-> TRUE, addr |-> addr]]
                            ELSE tunnelAddr
    /\ UNCHANGED <<mainVars, coreVars, nameVars, lastCmd, wgVars>>

\* TunnelManager::known_hosts, called by run_ssh_cmd during up()
TunnelKnownHosts(name) ==
    /\ tunnelAddr[name].up
    /\ \E fs \in FsOutcomes :
         LET made == make_config_dir(store[name], fs) IN
         store' = [store EXCEPT ![name] =
            IF tunnelAddr[name].addr = <<>> THEN @
            ELSE IF fs = "mkdir_err" THEN @
            ELSE IF fs = "write_err" THEN made.dir
            ELSE [made.dir EXCEPT !.known_hosts =
                     File(HostLine(tunnelAddr[name].addr, HostKey))]]
    /\ UNCHANGED <<mainVars, coreVars, nameVars, tunnelAddr, lastCmd, wgVars>>

\* TunnelManager::clean of the manager of `name`, then the process exits
TunnelCleanStore(name) ==
    /\ tunnelAddr[name].up
    /\ \E mk \in {"ok", "mkdir_err"}, rm \in {"ok", "remove_err"} :
         store' = [store EXCEPT
                      ![name] = clean_config_dir(store[name], mk, rm).dir]
    /\ tunnelAddr' = [tunnelAddr EXCEPT ![name] = NoManager]
    /\ UNCHANGED <<mainVars, coreVars, nameVars, lastCmd, wgVars>>

\* manager.rs get_server_ip on the directory `d`: make_config_dir, then
\* read_to_string, split(' '), host_parts[0].parse()
get_server_ip(d, mk) ==
    LET made == make_config_dir(d, mk)
        host_parts == Split(d.known_hosts.content, " ")
        ip == ParseIpAddr(host_parts[1])
    IN  IF ~made.ok THEN [ok |-> FALSE, value |-> <<>>, dir |-> d]
        ELSE IF ~d.known_hosts.present
          THEN [ok |-> FALSE, value |-> <<>>, dir |-> made.dir]
        ELSE [ok |-> ip.ok, value |-> ip.value, dir |-> made.dir]

\* manager.rs open_shell on the directory `d`: make_config_dir for the two
\* paths, get_server_ip, then the ssh command
open_shell(d, mk, cmd) ==
    LET made == make_config_dir(d, mk)
        ip == get_server_ip(made.dir, mk)
    IN  IF ~made.ok THEN [ok |-> FALSE, value |-> <<>>, dir |-> d]
        ELSE IF ~ip.ok THEN ip
        ELSE [ok |-> cmd # "spawn_err", value |-> ip.value, dir |-> ip.dir]

\* what a subcommand leaves behind: its name, the tunnel it was about, the
\* directory as it found it, what the library function returned and the
\* exit status of the process
Ran(sub, name, mk, r, code) ==
    [status |-> "ran", sub |-> sub, name |-> name, found |-> store[name],
     mk |-> mk, result |-> IF r.ok THEN "Ok" ELSE "Err", ip |-> r.value,
     exit |-> code]

\* main.rs: the `ip` subcommand, println!("{}", ip) or exit(2)
CmdIp(arg) ==
    LET name == clean_name(arg) IN
    \E mk \in {"ok", "mkdir_err"} :
       LET r == get_server_ip(store[name], mk) IN
       /\ store' = [store EXCEPT ![name] = r.dir]
       /\ lastCmd' = Ran("ip", name, mk, r, IF r.ok THEN "0" ELSE "2")
       /\ UNCHANGED <<mainVars, coreVars, nameVars, tunnelAddr, wgVars>>

\* main.rs: the `ssh` subcommand, exit(3) on Err
CmdSsh(arg) ==
    LET name == clean_name(arg) IN
    \E mk \in {"ok", "mkdir_err"}, cmd \in CmdOutcomes :
       LET r == open_shell(store[name], mk, cmd) IN
       /\ store' = [store EXCEPT ![name] = r.dir]
       /\ lastCmd' = Ran("ssh", name, mk, r, IF r.ok THEN "0" ELSE "3")
       /\ UNCHANGED <<mainVars, coreVars, nameVars, tunnelAddr, wgVars>>

NextStore ==
    \/ \E arg \in NameArgs : \E addr \in ServerAddrs \cup {<<>>} :
          TunnelNew(arg, addr)
    \/ \E name \in StoreNames : TunnelKnownHosts(name)
    \/ \E name \in StoreNames : TunnelCleanStore(name)
    \/ \E arg \in NameArgs : CmdIp(arg)
    \/ \E arg \in NameArgs : CmdSsh(arg)

SpecStore == InitStore /\ [][NextStore]_vars

\* ------------------------------------- wg.rs: WireguardManager::new

WIREGUARD_LISTEN_PORT == 51820

\* private keys `wg genkey` may print
WgPrivateKeys == {"privkey1", "privkey2"}

\* derive_wireguard_pubkey: `wg pubkey` of the private key
derive_wireguard_pubkey(privkey) == <<"pubkey of", privkey>>

\* WireguardKeypair::new for the private key `wg genkey` printed, or the
\* error of a `wg` command that could not be run
WireguardKeypairNew(privkey) ==
    IF privkey \in WgPrivateKeys
      THEN [ok |-> TRUE, private |-> privkey,
            public |-> derive_wireguard_pubkey(privkey)]
      ELSE [ok |-> FALSE, private |-> privkey, public |-> <<>>]

KeygenOutcomes == WgPrivateKeys \cup {"wg failed"}

\* the keypair of a WireguardHost
Keypair(kp) == [private |-> kp.private, public |-> kp.public]

\* WireguardManager::new with the peer of the remote device set to the
\* remote host itself
WireguardManagerNewSelfPeer(service_name, addrs, localKey, remoteKey) ==
    LET wg_subnet == generate_unused_subnet(addrs)
        wg_local_keypair == WireguardKeypairNew(localKey)
        wg_remote_keypair == WireguardKeypairNew(remoteKey)
    IN
    IF wg_subnet.status # "Ok" \/ ~wg_local_keypair.ok \/ ~wg_remote_keypair.ok
      THEN [status |-> "Err"]
      ELSE
        LET s == Hosts(wg_subnet.value)
            wg_local_host ==
                [name |-> Innisfree \o <<"-">> \o service_name \o <<"-local">>,
                 address |-> s[1], endpoint |-> "None", listenport |-> 0,
                 keypair |-> Keypair(wg_local_keypair)]
            wg_remote_host ==
                [name |-> Innisfree \o <<"-">> \o service_name \o <<"-remote">>,
                 address |-> s[2], endpoint |-> "None",
                 listenport |-> WIREGUARD_LISTEN_PORT,
                 keypair |-> Keypair(wg_remote_keypair)]
        IN  [status |-> "Ok",
             wg_local_ip |-> s[1],
             wg_local_device |-> [name |-> wg_local_host.name,
                                  interface |-> wg_local_host,
                                  peer |-> wg_remote_host],
             wg_remote_ip |-> s[2],
             wg_remote_device |-> [name |-> wg_remote_host.name,
                                   interface |-> wg_remote_host,
                                   peer |-> wg_remote_host]]

\* WireguardManager::new(service_name) on a host whose interfaces have the
\* addresses addrs: generate_unused_subnet()?, then the local and the remote
\* keypair, each with `?`, then the two hosts and the two devices
WireguardManagerNew(service_name, addrs, localKey, remoteKey) ==
    LET wg_subnet == generate_unused_subnet(addrs)
        wg_local_keypair == WireguardKeypairNew(localKey)
        wg_remote_keypair == WireguardKeypairNew(remoteKey)
    IN
    IF wg_subnet.status # "Ok" \/ ~wg_local_keypair.ok \/ ~wg_remote_keypair.ok
      THEN [status |-> "Err"]
      ELSE
        LET s == Hosts(wg_subnet.value)
            wg_local_host ==
                [name |-> Innisfree \o <<"-">> \o service_name \o <<"-local">>,
                 address |-> s[1], endpoint |-> "None", listenport |-> 0,
                 keypair |-> Keypair(wg_local_keypair)]
            wg_remote_host ==
                [name |-> Innisfree \o <<"-">> \o service_name \o <<"-remote">>,
                 address |-> s[2], endpoint |-> "None",
                 listenport |-> WIREGUARD_LISTEN_PORT,
                 keypair |-> Keypair(wg_remote_keypair)]
        IN  [status |-> "Ok",
             wg_local_ip |-> s[1],
             wg_local_device |-> [name |-> wg_local_host.name,
                                  interface |-> wg_local_host,
                                  peer |-> wg_remote_host],
             wg_remote_ip |-> s[2],
             wg_remote_device |-> [name |-> wg_remote_host.name,
                                   interface |-> wg_remote_host,
                                   peer |-> wg_local_host]]

\* addresses the interfaces of the host may have: the host addresses of the
\* four /30 of 10.50.0.0/28
WgBoundAddresses ==
    UNION {{Hosts(Subnets(INNISFREE_SUBNET, 30).value[i])[j] : j \in 1..2}
              : i \in 1..Len(Subnets(INNISFREE_SUBNET, 30).value)}

InitWg ==
    /\ MainIdle /\ NameIdle /\ StoreIdle
    /\ ParserIdle /\ HostIdle /\ EngineIdle
    /\ bound \in SUBSET WgBoundAddresses
    /\ subnetResult = NotCalled
    /\ wgManager = NotCalled /\ wgServerCopy = NotCalled

\* TunnelManager::new: let wg = WireguardManager::new(tunnel_name)?
CallWireguardManagerNew ==
    /\ wgManager = NotCalled
    /\ \E name \in StoreNames : \E localKey \in KeygenOutcomes :
         \E remoteKey \in KeygenOutcomes :
            wgManager' = WireguardManagerNew(name, bound, localKey, remoteKey)
    /\ UNCHANGED <<mainVars, coreVars, nameVars, storeVars, wgServerCopy>>

\* TunnelManager::new: Droplet::new(.., wg.clone(), ..); the derived Clone
\* copies every field
WgClone ==
    /\ wgManager # NotCalled /\ wgManager.status = "Ok"
    /\ wgServerCopy = NotCalled
    /\ wgServerCopy' = wgManager
    /\ UNCHANGED <<mainVars, coreVars, nameVars, storeVars, wgManager>>

NextWg == CallWireguardManagerNew \/ WgClone

SpecWg == InitWg /\ [][NextWg]_vars

\* ------------------------------------------------------------- properties

ExitedWithFailure ==
    pc = "exited" /\ exitCode \in {ExitMainErr, ExitUpFailed, ExitHandlerFailed}

\* C1: when the `up` subcommand exits with a failure status, the SSH key and
\* the Droplet it created are gone from the provider and the local WireGuard
\* interface does not exist.
C1_NoLeakOnFailure ==
    ExitedWithFailure => (~keyExists /\ ~dropletExists /\ ~wgUp)

\* C2: when the process has exited after a fatal outcome (up() returned Err,
\* the reserved-IP assignment failed, or the interrupt signal arrived),
\* clean() was invoked exactly once.
C2_CleanExactlyOnce ==
    (pc = "exited" /\ exitCode # KilledBySigint
        /\ (upResult = "err" \/ fipFailed \/ signalled))
    => cleanCount = 1

ExpectedUpSteps ==
    <<"wait_for_ssh", "wait_for_cloudinit", "write_locally",
      "bring_up_remote_wg", "bring_down_local_wg", "wg_quick_up_local",
      "test_connection">>

\* number of log entries when up() is about to run step k of UpOrder
LoggedBefore == <<0, 1, 2, 3, 4, 6>>

\* C4: the steps of up() run strictly in order: the completed steps are
\* always an initial part of (wait for SSH, wait for cloud-init, write local
\* INI, remote interface up, local interface down, local interface up, ping),
\* a step is started only when exactly the steps before it have completed,
\* and no step other than the best-effort local down is followed by another
\* step after it failed.
C4_UpStepsSequential ==
    /\ Len(upLog) <= Len(ExpectedUpSteps)
    /\ \A i \in 1..Len(upLog) : upLog[i].step = ExpectedUpSteps[i]
    /\ \A k \in 1..6 : pc = UpOrder[k] => Len(upLog) = LoggedBefore[k]
    /\ \A i \in 1..(Len(upLog) - 1) :
         upLog[i].step # "bring_down_local_wg" => upLog[i].status # "err"
    /\ upResult = "ok" => Len(upLog) = Len(ExpectedUpSteps)

C4_Witness ==
    /\ upResult = "ok"
    /\ Len(upLog) = Len(ExpectedUpSteps)
    /\ sshRetries > 0

\* C5: up() returns Ok only if the ping to the remote WireGuard address
\* exited with status 0.
C5_UpOkOnlyIfPingZero ==
    upResult = "ok" => upLog[Len(upLog)] = LogEntry("test_connection", "zero")

\* C6: a remote SSH step of up() whose ssh command did not exit with status
\* 0 is the last step up() runs, and up() returns Err.
C6_SshStatusGatesUp ==
    \A i \in 1..Len(upLog) :
        (upLog[i].step \in {"wait_for_cloudinit", "bring_up_remote_wg"}
            /\ upLog[i].status # "zero")
        => (i = Len(upLog) /\ upResult = "err")

\* C7: a proxy listener is bound, and the proxy task exists, only after
\* up() has returned Ok.
C7_ProxyOnlyAfterUpOk ==
    (proxySpawned \/ listeners # {}) => upResult = "ok"

C7_Witness ==
    /\ listeners # {}
    /\ upResult = "ok"
    /\ pc = "blocking"

\* C8: every invocation of clean() that returns has attempted wg-quick down,
\* the provider destroy and the removal of the config directory, in that
\* order, whatever the result of each; before it returns, the attempts made
\* are exactly the teardown actions that precede its position.
C8_CleanAttemptsAll ==
    /\ pc = "clean_returned" =>
         /\ Len(cleanLog) = 3
         /\ cleanLog[1].step = "bring_down_local_wg"
         /\ cleanLog[2].step = "destroy"
         /\ cleanLog[3].step = "clean_config_dir"
    /\ \A k \in 1..3 : pc = CleanOrder[k] => Len(cleanLog) = k - 1

C8_Witness ==
    /\ pc = "clean_returned"
    /\ Len(cleanLog) = 3
    /\ cleanLog[1].status = "err"
    /\ cleanLog[2].status = "err"
    /\ cleanLog[3].status = "ok"

\* C9: every call of the provider's destroy on a handle that carries a
\* registered SSH key issues the key deletion first and then the Droplet
\* deletion, whether or not the key deletion succeeded.
C9_DestroyKeyBestEffort ==
    \A i \in 1..Len(destroyLog) :
        destroyLog[i].keyResp # "none" =>
            destroyLog[i].reqs =
                <<"DELETE account/keys/id", "DELETE droplets/id">>

\* C10: destroy on a handle whose server and SSH key are already destroyed
\* returns Ok and leaves the provider's state unchanged.
C10_DestroyIdempotent ==
    \A i \in 1..Len(destroyLog) :
        (~destroyLog[i].preKey /\ ~destroyLog[i].preDroplet)
        => /\ destroyLog[i].result = "Ok"
           /\ ~destroyLog[i].postKey /\ ~destroyLog[i].postDroplet

\* the elements of a comma-separated port specification
Elements(spec) == Split(spec, ",")

\* an element ServicePort::try_from rejects
Malformed(element) == ~try_from(element).ok

\* C19: from_str_multi returns an error whenever an element of the
\* specification is malformed, and for a specification all of whose elements
\* are valid it returns Ok with one ServicePort per element, in order.
C19_MalformedElementFails ==
    parseResult.status # "not called" =>
        LET elements == Elements(parseInput) IN
        IF \E i \in 1..Len(elements) : Malformed(elements[i])
          THEN parseResult.status = "Err"
          ELSE /\ parseResult.status = "Ok"
               /\ Len(parseResult.value) = Len(elements)
               /\ \A i \in 1..Len(elements) :
                    parseResult.value[i] = try_from(elements[i]).value

\* C20: when an element of --ports is malformed, the `up` subcommand
\* registers no SSH key, creates no Droplet, issues no provider request,
\* writes no file into the config directory and does not exit with status 0.
C20_MalformedPortsRejected ==
    (\E i \in 1..Len(Elements(port_spec)) : Malformed(Elements(port_spec)[i]))
    => /\ ~keyExists /\ ~dropletExists
       /\ requests = <<>>
       /\ files = {}
       /\ exitCode # ExitClean

\* the four /30 blocks of 10.50.0.0/28, by number, and their host addresses
Block30(k) == Ipv4(10, 50, 0, 4 * k)
BlockFree(k) == Block30(k) + 1 \notin bound /\ Block30(k) + 2 \notin bound

\* C13: generate_unused_subnet returns the lowest of the four /30 subnets of
\* 10.50.0.0/28 neither of whose two host addresses is bound on the host,
\* fails exactly when each of the four has a bound host address, and returns
\* 10.50.0.0/30 when no address of 10.50.0.0/28 is bound.
C13_LowestFreeSubnet ==
    subnetResult.status # "not called" =>
        LET free == {k \in 0..3 : BlockFree(k)} IN
        /\ (free = {}) <=> (subnetResult.status = "Err")
        /\ free # {} =>
             /\ subnetResult.status = "Ok"
             /\ subnetResult.value =
                  [addr |-> Block30(CHOOSE k \in free : \A j \in free : k <= j),
                   prefix_len |-> 30]
        /\ (\A a \in bound : a < Block30(0) \/ a >= Block30(4))
             => subnetResult = [status |-> "Ok",
                                value |-> [addr |-> Ipv4(10, 50, 0, 0),
                                           prefix_len |-> 30]]

\* the first block is taken by its second host address only, the second by
\* its first, and the third is returned
C13_Witness ==
    /\ subnetResult.status = "Ok"
    /\ subnetResult.value.addr = Block30(2)
    /\ Block30(0) + 1 \notin bound /\ Block30(0) + 2 \in bound
    /\ Block30(1) + 1 \in bound

\* process p holds a /30: it was allocated one and has not exited
HoldsSubnet(p) ==
    tunnels[p].subnet.status = "Ok" /\ tunnels[p].pc # "exited"

\* C11: two `up` processes on one host whose names differ (also after
\* clean_name) never hold the same /30 at the same time: a /30 allocated to
\* one that has not been cleaned is not allocated to the other.
C11_DistinctSubnets ==
    \A p \in DOMAIN tunnels, q \in DOMAIN tunnels :
        (p # q /\ TunnelName(p) # TunnelName(q)
             /\ HoldsSubnet(p) /\ HoldsSubnet(q))
        => tunnels[p].subnet.value # tunnels[q].subnet.value

\* the config directory, the local interface and the Droplet of process q
DirOf(q) == {d \in hostDirs : d.name = ConfigDir(TunnelName(q))}
IfaceOf(q) == {i \in hostIfaces : i.name = IfaceName(TunnelName(q))}
DropletOf(q) == {tunnels[q].droplet} \cap droplets

\* a step of process p leaves what belongs to process q as it is
LeavesAlone(p, q) ==
    tunnels'[p] # tunnels[p]
    => /\ DirOf(q)' = DirOf(q)
       /\ IfaceOf(q)' = IfaceOf(q)
       /\ DropletOf(q)' = DropletOf(q)

\* C12 as stated: for two tunnels started with distinct values of --name,
\* every step of creating or cleaning one leaves the other's config
\* directory, local WireGuard interface and Droplet unchanged.
C12_OtherTunnelUntouched ==
    [][\A p \in DOMAIN tunnels, q \in DOMAIN tunnels :
          (p # q /\ tunnels[p].name # tunnels[q].name) => LeavesAlone(p, q)]_vars

\* C12 as amended: for two tunnels whose names differ after clean_name,
\* every step of creating or cleaning one leaves the other's config
\* directory, local WireGuard interface and Droplet unchanged.
C12_OtherTunnelUntouchedByCleanName ==
    [][\A p \in DOMAIN tunnels, q \in DOMAIN tunnels :
          (p # q /\ TunnelName(p) # TunnelName(q)) => LeavesAlone(p, q)]_vars

\* one tunnel was cleaned while the other, of another name, stays up with
\* its directory, interface and Droplet
C12_Witness ==
    \E p \in DOMAIN tunnels, q \in DOMAIN tunnels :
        /\ TunnelName(p) # TunnelName(q)
        /\ tunnels[p].pc = "exited" /\ tunnels[p].upOk
        /\ DirOf(p) = {} /\ IfaceOf(p) = {} /\ DropletOf(p) = {}
        /\ tunnels[q].pc = "blocking"
        /\ DirOf(q) # {} /\ IfaceOf(q) # {} /\ DropletOf(q) # {}

Spec80To8000 == from_str_multi(<<"8", "0", ":", "8", "0", "0", "0">>).value

\* C15: with the service spec 80:8000, once the proxy is listening a TCP
\* connection to port 80 of the local address is accepted, and it results in
\* an outbound connection to port 8000 of the destination.
C15_Port80ReachesDest8000 ==
    proxyServices = Spec80To8000 =>
        /\ \A r \in refused : r.ready => r.port # 80
        /\ \A k \in 1..Len(conns) :
             conns[k].listen = 80 => conns[k].dest = 8000

\* C16: in a proxied connection a direction that has read end-of-stream has
\* shut down the write side of the opposite socket and of nothing else, the
\* other direction and its sockets stay as they are, and transfer returns Ok
\* only when both directions have read end-of-stream and shut down.
C16_HalfCloseThenComplete ==
    \A k \in 1..Len(conns) :
        /\ conns[k].state = "Ok" =>
              conns[k].c2s = "eof" /\ conns[k].s2c = "eof"
        /\ conns[k].state = "open" =>
              /\ ~(conns[k].c2s = "eof" /\ conns[k].s2c = "eof")
              /\ conns[k].outbound =
                    IF conns[k].c2s = "eof" THEN "write_shut" ELSE "open"
              /\ conns[k].inbound =
                    IF conns[k].s2c = "eof" THEN "write_shut" ELSE "open"

\* a direction copied after the other one had half-closed, and the transfer
\* then returned Ok
C16_Witness ==
    \E k \in 1..Len(conns) : conns[k].state = "Ok" /\ conns[k].late

\* C17: a transfer that failed (connect error or pump error) has both its
\* sockets closed, and the step in which it fails changes neither a handler
\* (the accept loops go on) nor run_proxy nor any other connection.
C17_FailureIsLocal ==
    /\ [](\A k \in 1..Len(conns) :
            Failed(conns[k]) =>
                /\ conns[k].inbound = "closed"
                /\ conns[k].outbound \in {"none", "closed"})
    /\ [][\A k \in 1..Len(conns) :
            (~Failed(conns[k]) /\ conns'[k].state = "Err") =>
                /\ handlers' = handlers
                /\ runProxy' = runProxy
                /\ \A j \in 1..Len(conns) : j # k => conns'[j] = conns[j]]_vars

\* after a transfer of a handler failed, the same handler, still listening,
\* accepted another connection, which is open
C17_Witness ==
    \E k \in 1..Len(conns) :
        /\ conns[k].after_failure
        /\ conns[k].state = "open"
        /\ handlers[conns[k].handler].state = "listening"

RunProxyCompleted == runProxy \in {"Ok", "Err"}

\* every service has a listener task and each of them has completed
EveryListenerCompleted ==
    /\ Len(handlers) = Len(proxyServices)
    /\ \A i \in 1..Len(handlers) : handlers[i].state \in {"Ok", "Err"}

\* a listener error: a bind that failed or an accept that failed
SomeListenerError ==
    \E i \in 1..Len(handlers) : handlers[i].state \in {"Ok", "Err"}

AddressRejected ==
    \E i \in 1..Len(proxyServices) :
        \/ proxyServices[i].local_port \notin 0..65535
        \/ proxyServices[i].port \notin 0..65535

C21_DistinctPublicPorts ==
    parseResult # NotCalled =>
        \A i \in 1..Len(parseResult.value) :
            \A j \in 1..Len(parseResult.value) :
                i # j => parseResult.value[i].port # parseResult.value[j].port

\* the port numbers a ServicePort may carry
ValidPorts == 1..65535

\* C22: every ServicePort produced by parsing has port and local_port in
\* 1..65535, and a specification with an element whose port or local port
\* reads as a number outside that range is rejected.
C22_PortsInRange ==
    parseResult # NotCalled =>
        /\ \A i \in 1..Len(parseResult.value) :
              /\ parseResult.value[i].port \in ValidPorts
              /\ parseResult.value[i].local_port \in ValidPorts
        /\ (\E n \in 1..Len(Elements(parseInput)) :
               LET r == try_from(Elements(parseInput)[n])
               IN  /\ r.ok
                   /\ \/ r.value.port \notin ValidPorts
                      \/ r.value.local_port \notin ValidPorts)
              => parseResult.status = "Err"

\* the step issues the provider API request `req`
Issues(req) ==
    /\ Len(requests') = Len(requests) + 1
    /\ requests'[Len(requests')] = req

\* C24: a provider API call that was answered with an HTTP status >= 400 (the
\* resource is then as it was before the request) returns an error to its
\* caller: registering the key, creating the server and polling it make
\* TunnelManager::new fail, assigning a reserved IP that was not bound makes
\* new fail or main exit with the error, and a destroy() whose key or server
\* deletion was answered >= 400 returns Err.
C24_HttpErrorSurfaces ==
    /\ [][/\ (Issues("POST account/keys") /\ ~keyExists')
                => pc' = "new_failed"
          /\ (Issues("POST droplets") /\ ~dropletExists')
                => pc' = "new_failed"
          /\ (Issues("GET droplets/id") /\ polls' = polls)
                => pc' = "new_failed"
          /\ (Issues("POST floating_ips/ip/actions") /\ ~fipBound')
                => \/ pc' = "new_failed"
                   \/ pc' = "exited" /\ exitCode' = ExitMainErr]_vars
    /\ [](\A i \in 1..Len(destroyLog) :
            (destroyLog[i].keyResp = "http_error"
               \/ destroyLog[i].dropResp = "http_error")
                  => destroyLog[i].result = "Err")

\* positions of main at which Droplet::new has not returned a handle
BeforeBootReturned ==
    {"start", "new_clean_config_dir", "new_wireguard", "new_ssh_keypairs",
     "new_user_data", "new_register_key", "new_create_droplet",
     "new_wait_for_boot", "new_failed"}

\* C25: a poll of wait_for_boot that is answered with a status other than
\* "active" is followed by another poll, however many polls there were, and
\* the controller holds a server handle only with status "active".
C25_PollUntilActive ==
    /\ [][(/\ pc = "new_wait_for_boot"
           /\ Issues("GET droplets/id")
           /\ polls' > polls
           /\ dropletStatus' # "active")
              => pc' = "new_wait_for_boot"]_vars
    /\ [](pc \notin (BeforeBootReturned \cup {"exited"})
              => server.status = "active")

\* the server was reported "new" as often as the environment allows, then
\* "active", and Droplet::new has returned
C25_Witness ==
    /\ pc = "new_static_ip"
    /\ polls = MaxPolls + 1
    /\ server.status = "active"

\* C26: with DIGITALOCEAN_API_TOKEN unset the `up` subcommand does nothing
\* but exit with a failure status: it never gets past the token check and
\* no provider API request is issued.
C26_NoTokenNoRequest ==
    ~tokenSet =>
        /\ pc \in {"start", "exited"}
        /\ pc = "exited" => exitCode = ExitMainErr
        /\ requests = <<>>
        /\ ~keyExists /\ ~dropletExists /\ ~proxySpawned

\* the process has exited with status 1 because the token was not set
C26_Witness ==
    /\ ~tokenSet
    /\ pc = "exited" /\ exitCode = ExitMainErr
    /\ requests = <<>>

Foo == <<"f", "o", "o">>

\* C23: clean_name applied to its own result returns that result, for every
\* string; and clean_name("innisfree") is "innisfree", while "foo",
\* "foo-innisfree" and "innisfree-foo" all become "innisfree-foo".
C23_CleanNameIdempotent ==
    /\ Len(nameResults) >= 2 => nameResults[2] = nameResults[1]
    /\ Len(nameResults) >= 1 =>
          /\ nameInput = Innisfree => nameResults[1] = Innisfree
          /\ nameInput \in {Foo, Foo \o <<"-">> \o Innisfree,
                            Innisfree \o <<"-">> \o Foo}
                => nameResults[1] = Innisfree \o <<"-">> \o Foo

\* C27: an `ip` subcommand that finds the known_hosts the controller wrote
\* for a server with public address A gets Ok(A) from get_server_ip and
\* exits 0, provided the config directory can be made; one that finds no
\* known_hosts for the name gets an error and exits with code 2.
C27_KnownHostsRoundTrip ==
    (lastCmd # NotCalled /\ lastCmd.sub = "ip") =>
        /\ \A a \in ServerAddrs :
              (/\ lastCmd.found.known_hosts = File(HostLine(a, HostKey))
               /\ lastCmd.mk = "ok")
                 => /\ lastCmd.result = "Ok"
                    /\ lastCmd.ip = a
                    /\ lastCmd.exit = "0"
        /\ ~lastCmd.found.known_hosts.present
              => lastCmd.result = "Err" /\ lastCmd.exit = "2"

\* `ip` for a running tunnel whose server is 10.0.0.255 printed that address
C27_Witness ==
    /\ lastCmd # NotCalled /\ lastCmd.sub = "ip"
    /\ tunnelAddr[lastCmd.name] = [up |-> TRUE, addr |-> <<10, 0, 0, 255>>]
    /\ lastCmd.result = "Ok" /\ lastCmd.ip = <<10, 0, 0, 255>>
    /\ lastCmd.exit = "0"

\* C28: a step of the `ip` or of the `ssh` subcommand leaves every directory
\* and file below the config root as it was, also for a name no tunnel has.
C28_ReadOnlySubcommands ==
    [][(\E arg \in NameArgs : CmdIp(arg) \/ CmdSsh(arg))
          => store' = store]_vars

\* the two devices of the manager m mirror each other, on the /30 n
Mirrored(m, n) ==
    LET local == m.wg_local_device
        remote == m.wg_remote_device
    IN  /\ local.interface.keypair.public = remote.peer.keypair.public
        /\ remote.interface.keypair.public = local.peer.keypair.public
        /\ local.interface.address = Hosts(n)[1]
        /\ local.interface.listenport = 0
        /\ remote.interface.address = Hosts(n)[2]
        /\ remote.interface.listenport = 51820
        /\ local.peer.address = remote.interface.address
        /\ remote.peer.address = local.interface.address
        /\ m.wg_local_ip = local.interface.address
        /\ m.wg_remote_ip = remote.interface.address

\* C30: in a WireguardManager that new returned, and in the clone the server
\* is given, the local interface's public key is the remote device's peer
\* key and the other way round, the local address is the first host of the
\* allocated /30 with listen port 0, and the remote address is the second
\* host with listen port 51820.
C30_DevicesMirrored ==
    \A m \in {wgManager, wgServerCopy} :
        (m # NotCalled /\ m.status = "Ok") =>
            /\ generate_unused_subnet(bound).status = "Ok"
            /\ Mirrored(m, generate_unused_subnet(bound).value)

\* with 10.50.0.1 bound on the host the manager got 10.50.0.5 and 10.50.0.6,
\* two different keys, and the server holds its clone
C30_Witness ==
    /\ bound = {Ipv4(10, 50, 0, 1)}
    /\ wgManager # NotCalled /\ wgManager.status = "Ok"
    /\ wgManager.wg_local_ip = Ipv4(10, 50, 0, 5)
    /\ wgManager.wg_remote_ip = Ipv4(10, 50, 0, 6)
    /\ wgManager.wg_local_device.interface.keypair.public
          # wgManager.wg_remote_device.interface.keypair.public
    /\ wgServerCopy = wgManager

\* the process has exited with an exit status (it was not killed by a signal)
ExitedWithCode == pc = "exited" /\ exitCode # KilledBySigint

\* exit status 0 after the teardown a signal started, 2 after up() failed
\* and clean() ran, 10 when ctrl_c() returned an error
ExitZeroTwoTen ==
    \/ /\ exitCode = ExitClean
       /\ signalled /\ cleanCaller = "signal" /\ cleanCount = 1
    \/ /\ exitCode = ExitUpFailed
       /\ upResult = "err" /\ cleanCaller = "up_failed" /\ cleanCount = 1
    \/ /\ exitCode = ExitHandlerFailed
       /\ upResult = "ok" /\ ~signalled /\ cleanCount = 0

\* C29 as stated: the `up` subcommand exits only with code 0 (teardown after
\* a signal), 2 (up() failed, clean() ran) or 10 (no signal handler).
C29_ExitCodes == ExitedWithCode => ExitZeroTwoTen

\* exit status 1 when the token is not set or main returns the error of
\* assign_floating_ip, 101 when --dest-ip does not parse, and 2 when
\* TunnelManager::new failed, without clean()
ExitOneOrNewFailed ==
    \/ /\ exitCode = ExitMainErr
       /\ cleanCount = 0
       /\ \/ ~tokenSet /\ requests = <<>>
          \/ tokenSet /\ floating_ip /\ fipFailed /\ upResult = "ok"
    \/ /\ exitCode = ExitPanic
       /\ tokenSet /\ ~destParses /\ requests = <<>>
    \/ /\ exitCode = ExitUpFailed
       /\ upResult = "none" /\ cleanCount = 0

\* C29 as amended: the `up` subcommand exits only with code 0, 2 or 10 as
\* stated, with code 2 also when TunnelManager::new failed (no clean() ran),
\* with code 1 when the token is not set or the reserved IP could not be
\* assigned after up(), or with code 101 when --dest-ip does not parse.
C29_ExitCodesWithOne ==
    ExitedWithCode => (ExitZeroTwoTen \/ ExitOneOrNewFailed)

\* main returned the error of assign_floating_ip: exit status 1, after a
\* successful up() and without clean()
C29_Witness ==
    /\ ExitedWithCode
    /\ exitCode = ExitMainErr
    /\ tokenSet /\ fipFailed /\ upResult = "ok" /\ cleanCount = 0

\* C31: a listener that is bound stays bound unless it is cancelled: no step,
\* an error returned by accept included, ends its accept loop.
C31_AcceptLoopSurvivesErrors ==
    [][\A i \in 1..Len(handlers) :
          handlers[i].state = "listening" =>
              handlers'[i].state \in {"listening", "cancelled"}]_vars

\* generate_user_data returned Err in this step: a template render or the
\* YAML serialization failed
UserDataRenderFails == pc = "new_user_data" /\ pc' = "new_failed"

\* write_locally returned Err in this step after it had created the file:
\* the render of the local WireGuard INI failed
LocalIniRenderFails ==
    /\ pc = "up_write_locally" /\ pc' = "up_returned"
    /\ "wg.conf" \notin files /\ "wg.conf" \in files'

NoProviderResource == ~keyExists /\ ~dropletExists /\ ~fipBound

CreatingRequests == {"POST account/keys", "POST droplets"}

\* no resource-creating request has been issued
NothingCreatedYet ==
    \A i \in 1..Len(requests) : requests[i] \notin CreatingRequests

\* C32 as stated: a render failure (cloud-init YAML, nginx stream config,
\* remote or local WireGuard INI) happens only while no provider resource
\* exists and before the first resource-creating provider call.
C32_RenderBeforeResources ==
    [][(UserDataRenderFails \/ LocalIniRenderFails) =>
          (NoProviderResource /\ NothingCreatedYet)]_vars

\* C32 as amended: a render failure of the user data (cloud-init YAML, nginx
\* stream config, remote WireGuard INI) happens only while no provider
\* resource exists and before the first resource-creating provider call; the
\* local WireGuard INI is rendered by up() when the server has been created,
\* and its render failure makes up() return Err.
C32_UserDataRenderBeforeResources ==
    /\ [][UserDataRenderFails =>
             (NoProviderResource /\ NothingCreatedYet)]_vars
    /\ [][LocalIniRenderFails =>
             (server # NoServer /\ ~NothingCreatedYet /\ upResult' = "err")]_vars
    /\ [](pc = "new_user_data" => NothingCreatedYet)

\* the render of the local WireGuard INI failed while the Droplet and its
\* SSH key exist
C32_Witness ==
    /\ pc = "up_returned" /\ upResult = "err"
    /\ upLog[Len(upLog)] = LogEntry("write_locally", "err")
    /\ "wg.conf" \in files
    /\ keyExists /\ dropletExists

\* C33: a service whose protocol is not TCP has no TCP listener: the
\* proxy_handler of a service is listening only if the protocol of the
\* service is TCP.
C33_UdpNeverTcp ==
    \A i \in 1..Len(handlers) :
        handlers[i].state = "listening" => proxyServices[i].protocol = TCP

UpCalled == pc = "up_wait_for_ssh"

UpReturned == pc = "up_returned" /\ upResult \in {"ok", "err"}

\* the loop of wait_for_ssh is where it was: up() has not returned and has
\* logged nothing
StillWaitingForSsh ==
    /\ pc' = pc
    /\ upResult' = upResult
    /\ upLog' = upLog

\* C34: when port 22 of the server eventually accepts a connection and
\* every subprocess terminates, up() eventually returns; a refused connection
\* is never an error, it leaves up() in the loop of wait_for_ssh, where a
\* further connection may be refused again, without limit.
C34_UpReturnsIfSshAccepts ==
    /\ UpCalled ~> UpReturned
    /\ [][(UpCalled /\ sshRetries' # sshRetries) => StillWaitingForSsh]_vars
    /\ [](UpCalled => ENABLED SshRefused)

\* up() returned Ok after a connection to port 22 had been refused
C34_Witness ==
    /\ UpReturned /\ upResult = "ok"
    /\ sshRetries > 0
    /\ upLog[1] = LogEntry("wait_for_ssh", "ok")

\* the teardown actions of clean() as they are logged when each returns
ExpectedCleanSteps == <<"bring_down_local_wg", "destroy", "clean_config_dir">>

InClean ==
    pc \in {"clean_bring_down_local_wg", "clean_destroy", "clean_config_dir"}

\* a step of clean() that deletes a file of the config directory or the
\* directory itself
ConfigDeleted ==
    /\ InClean
    /\ \/ \E f \in files : f \notin files'
       \/ dirExists /\ ~dirExists'

\* C35: clean() calls its teardown actions in the order `wg-quick down` on
\* the local config file, provider destroy, removal of the config directory,
\* and returns after the third; the config directory and the files in it
\* are deleted only by the third, when the other two have returned.
C35_CleanReverseOrder ==
    /\ [](/\ Len(cleanLog) <= Len(ExpectedCleanSteps)
          /\ \A i \in 1..Len(cleanLog) :
                cleanLog[i].step = ExpectedCleanSteps[i])
    /\ [](pc = "clean_returned" => Len(cleanLog) = Len(ExpectedCleanSteps))
    /\ [][ConfigDeleted =>
             /\ pc = "clean_config_dir"
             /\ Len(cleanLog) = 2
             /\ cleanLog[1].step = "bring_down_local_wg"
             /\ cleanLog[2].step = "destroy"]_vars

\* clean() has removed the config directory of a tunnel whose local
\* interface config had been written, after `wg-quick down` exited with
\* status 0 and the server was destroyed
C35_Witness ==
    /\ pc = "clean_returned"
    /\ \E i \in 1..Len(upLog) : upLog[i] = LogEntry("write_locally", "ok")
    /\ cleanLog = <<LogEntry("bring_down_local_wg", "zero"),
                    LogEntry("destroy", "ok"),
                    LogEntry("clean_config_dir", "ok")>>
    /\ ~dirExists /\ files = {}

\* up() has been called and has not returned
UpInProgress ==
    pc \in {"up_wait_for_ssh", "up_wait_for_cloudinit", "up_write_locally",
            "up_bring_up_remote_wg", "up_bring_up_local_wg",
            "up_test_connection"}

\* C36: clean() runs only when up() has returned: block() waits for the
\* interrupt only after up() returned Ok, the failure path enters clean()
\* only after up() returned Err, and an interrupt that arrives while up() is
\* in progress ends the process without a call of clean().
C36_CleanNeverDuringUp ==
    /\ [](UpInProgress => (upResult = "none" /\ cleanCount = 0 /\ ~InClean))
    /\ [](InClean => /\ cleanCaller = "signal" => upResult = "ok"
                     /\ cleanCaller = "up_failed" => upResult = "err"
                     /\ cleanCaller \in {"signal", "up_failed"})
    /\ [](pc = "blocking" => upResult = "ok")
    /\ [][(UpInProgress /\ exitCode' = KilledBySigint) =>
             (pc' = "exited" /\ cleanCount' = 0 /\ cleanLog' = <<>>)]_vars

\* an interrupt ended the process while up() was waiting for cloud-init:
\* the server exists and clean() was never called
C36_Witness ==
    /\ pc = "exited" /\ exitCode = KilledBySigint
    /\ upLog = <<LogEntry("wait_for_ssh", "ok")>> /\ upResult = "none"
    /\ dropletExists
    /\ cleanCount = 0

\* TunnelManager::new has returned Ok: the process holds the handle that
\* Droplet::new returned
HandleReturned ==
    pc \notin {"start", "new_clean_config_dir", "new_wireguard",
               "new_ssh_keypairs", "new_user_data", "new_register_key",
               "new_create_droplet", "new_wait_for_boot", "new_static_ip",
               "new_failed", "exited"}

\* C37: the server handle carries the SSH key registered for it from the
\* moment it is made, through every readiness poll, and when create has
\* returned it (after one poll or more); every destroy of the handle first
\* issues the deletion of that key.
C37_HandleKeepsKey ==
    /\ server # NoServer => server.ssh_pubkey
    /\ HandleReturned =>
          (server.status = "active" /\ server.ssh_pubkey /\ polls >= 1)
    /\ \A i \in 1..Len(destroyLog) :
          /\ destroyLog[i].reqs # <<>>
          /\ destroyLog[i].reqs[1] = "DELETE account/keys/id"

\* the handle was returned after more than one readiness poll and was then
\* destroyed: the key deletion was issued and the key is gone
C37_Witness ==
    /\ polls >= 2
    /\ Len(destroyLog) = 1
    /\ destroyLog[1].preKey /\ ~destroyLog[1].postKey
    /\ destroyLog[1].reqs[1] = "DELETE account/keys/id"
    /\ server.ssh_pubkey

\* the listener task of a handler is still running
Running(h) == h.state \in {"pending", "listening"}

\* C38: the step in which the listener of one service ends, by a bind error
\* or an accept error, changes the listener of no other service, and
\* run_proxy has not returned while a listener is still running.
C38_ListenersIsolated ==
    /\ [][\A i \in 1..Len(handlers) :
             (Running(handlers[i]) /\ Completed(handlers'[i])) =>
                 \A j \in 1..Len(handlers) :
                     j # i => handlers'[j] = handlers[j]]_vars
    /\ [](RunProxyCompleted =>
             \A i \in 1..Len(handlers) : ~Running(handlers[i]))
    /\ [](\A i \in 1..Len(handlers) :
             Running(handlers[i]) => runProxy = "running")

\* the listener of the first service failed to bind; run_proxy is running
\* and the listener of the second service has a connection open
C38_Witness ==
    /\ Len(handlers) = 2
    /\ handlers[1].state = "Err" /\ handlers[2].state = "listening"
    /\ runProxy = "running"
    /\ \E k \in 1..Len(conns) :
          conns[k].handler = 2 /\ conns[k].state = "open"

====
